---- MODULE Spec2Model ----
(***************************************************************************)
(* Draft room state machine of the League-of-Legends team randomizer       *)
(* (server.js).  The file holds two historical servers: the "fearless"     *)
(* server (rooms with a blue slot, a red slot, spectators and a host       *)
(* connection; messages create_room, join_room, start_draft, draft_action, *)
(* toggle_fearless, reset_fearless, switch_team) and the "captain" server  *)
(* (rooms with named players and captains; messages join_team,             *)
(* set_bravery_mode, reset_bravery_session, start_draft, ban, pick).       *)
(* The variable `variant` selects which server a behaviour runs.           *)
(***************************************************************************)
EXTENDS Integers, Sequences, FiniteSets, TLC

\* ------------------------------------------------------------------ bounds
NumConns == 2          \* connections the server sees in one behaviour
NumChampions == 24     \* champions a client can name
MaxDrafts == 2         \* accepted start_draft requests
MaxToggleTurn == 0     \* latest turn at which the session mode is switched
MaxFearlessUsed == 0   \* size the fearless session-used set may grow to
MaxSpectators == 1     \* length of a room's spectator list
MaxInFlight == 2       \* draft_action messages one client has in flight
MaxSessionUsed == 2    \* size the fearless set may grow to in the session specification
MaxSessionTurn == 7    \* last turn acted on in a draft of the session specification
MaxSeenTurn == 9       \* last turn at which a client with messages in flight clicks
NumPlayers == 2        \* display names used on the captain server
NumClients == 1        \* sockets the captain server sees in one behaviour
MaxDraftsCaptain == 1  \* accepted start_draft requests on the captain server
MaxBraveryUsed == 0    \* size the bravery session-used set may grow to
MaxMessages == 2       \* messageIds the page hands out before the user rests and connections fail
MaxNow == 5            \* last reading of the page's clock at which a heartbeat timer fires
MaxSockets == 2        \* sockets the page opens against the server in one behaviour
MaxLinkMessages == 4   \* messageIds the page hands out against the server
MaxLinkRetries == 1    \* retransmissions of one message while the page is followed against the server
MaxLinkTurn == 2       \* draft turns taken while the page is followed against the server
MaxSoloDrafts == 1     \* solo drafts the page enters
MaxEarlyClicks == 2    \* champion clicks accepted while a delayed advanceDraft is pending

Conns == 1..NumConns
Champions == 1..NumChampions
Players == 1..NumPlayers
Clients == 1..NumClients

\* JavaScript null: 0 for a connection, a room or a display name, "null"
\* for a string field
NoConn == 0
NoRoom == 0
NoName == 0
Null == "null"

VARIABLES
    variant,            \* "fearless" or "captain": which server.js runs
    codes,              \* the room codes of this behaviour (fixed by Init)
    rooms,              \* const rooms = {} : room code -> room object
    roomCleanupTimers,  \* codes with a pending cleanup timer
    conn,               \* per connection: readyState and the closure variables
    inflight,           \* draft_action messages sent but not yet received
    applied,            \* of the accepted in-flight messages: what their senders saw
    nDrafts,            \* accepted start_draft requests so far (bounded)
    earlierPicks,       \* champions picked in earlier drafts since the last reset_fearless
    client              \* the variables of js/multiplayer.js in one browser page

vars == <<variant, codes, rooms, roomCleanupTimers, conn, inflight, applied, nDrafts,
          earlierPicks, client>>

\* --------------------------------------------------------------- constants
\* a draft order whose thirteenth step is a red pick instead of a red ban
DRAFT_ORDER_RedPickAt12 ==
    << [team |-> "blue", action |-> "ban"],  [team |-> "red",  action |-> "ban"],
       [team |-> "blue", action |-> "ban"],  [team |-> "red",  action |-> "ban"],
       [team |-> "blue", action |-> "ban"],  [team |-> "red",  action |-> "ban"],
       [team |-> "blue", action |-> "pick"], [team |-> "red",  action |-> "pick"],
       [team |-> "red",  action |-> "pick"], [team |-> "blue", action |-> "pick"],
       [team |-> "blue", action |-> "pick"], [team |-> "red",  action |-> "pick"],
       [team |-> "red",  action |-> "pick"], [team |-> "blue", action |-> "ban"],
       [team |-> "red",  action |-> "ban"],  [team |-> "blue", action |-> "ban"],
       [team |-> "red",  action |-> "pick"], [team |-> "blue", action |-> "pick"],
       [team |-> "red",  action |-> "pick"], [team |-> "blue", action |-> "pick"] >>

\* server.js:18-46
DRAFT_ORDER ==
    << [team |-> "blue", action |-> "ban"],  [team |-> "red",  action |-> "ban"],
       [team |-> "blue", action |-> "ban"],  [team |-> "red",  action |-> "ban"],
       [team |-> "blue", action |-> "ban"],  [team |-> "red",  action |-> "ban"],
       [team |-> "blue", action |-> "pick"], [team |-> "red",  action |-> "pick"],
       [team |-> "red",  action |-> "pick"], [team |-> "blue", action |-> "pick"],
       [team |-> "blue", action |-> "pick"], [team |-> "red",  action |-> "pick"],
       [team |-> "red",  action |-> "ban"],  [team |-> "blue", action |-> "ban"],
       [team |-> "red",  action |-> "ban"],  [team |-> "blue", action |-> "ban"],
       [team |-> "red",  action |-> "pick"], [team |-> "blue", action |-> "pick"],
       [team |-> "red",  action |-> "pick"], [team |-> "blue", action |-> "pick"] >>

\* DRAFT_ORDER[i] with JavaScript's 0-based index
Step(i) == DRAFT_ORDER[i + 1]

\* ----------------------------------------------------------------- helpers
Range(s) == { s[i] : i \in 1..Len(s) }

Includes(s, x) == \E i \in 1..Len(s) : s[i] = x

\* Set.prototype.add on a JavaScript Set, kept as the sequence of its
\* elements in insertion order (the order Array.from returns)
SetAdd(s, x) == IF Includes(s, x) THEN s ELSE Append(s, x)

\* ------------------------------------------------ fearless server: objects
\* a fresh DraftState that names no team and no action until the draft starts
NewDraftState_NoTurnYet(used) ==
    [ phase |-> "idle", currentTurn |-> 0,
      blueBans |-> << >>, redBans |-> << >>,
      bluePicks |-> << >>, redPicks |-> << >>,
      currentTeam |-> Null, currentAction |-> Null,
      fearlessUsedChampions |-> used ]

\* server.js:64-77, 142-152  the DraftState literal of createNewRoom and resetDraft
NewDraftState(used) ==
    [ phase |-> "idle", currentTurn |-> 0,
      blueBans |-> << >>, redBans |-> << >>,
      bluePicks |-> << >>, redPicks |-> << >>,
      currentTeam |-> "blue", currentAction |-> "ban",
      fearlessUsedChampions |-> used ]

\* server.js:61-87
createNewRoom(roomId) ==
    [ id |-> roomId,
      draftState |-> NewDraftState(<< >>),
      fearlessDraftEnabled |-> FALSE,
      fearlessUsedChampions |-> << >>,
      bluePlayer |-> NoConn, redPlayer |-> NoConn,
      bluePlayerName |-> NoName, redPlayerName |-> NoName,
      spectators |-> << >>,
      host |-> NoConn ]

\* a reset that empties the lists but keeps the turn counter
resetDraft_KeepsTurn(room) ==
    [ room EXCEPT !.draftState =
        [ NewDraftState(IF room.fearlessDraftEnabled
                        THEN room.fearlessUsedChampions
                        ELSE << >>)
          EXCEPT !.currentTurn = room.draftState.currentTurn ] ]

\* server.js:141-153
resetDraft(room) ==
    [ room EXCEPT !.draftState =
        NewDraftState(IF room.fearlessDraftEnabled
                      THEN room.fearlessUsedChampions
                      ELSE << >>) ]

\* a turn check that lets either team act on any turn
OwnsTurn_EitherTeam(playerTeam, team) == playerTeam \in {"blue", "red"}

\* server.js:171  playerTeam !== team  (negated: the sender owns the turn)
OwnsTurn(playerTeam, team) == playerTeam = team

\* a duplicate check that looks at the ban lists only
ChampionTaken_BansOnly(ds, champion) ==
    Includes(ds.blueBans \o ds.redBans, champion)

\* server.js:176-180  the champion is in a ban list, a pick list or the
\* transmitted fearless snapshot
ChampionTaken(ds, champion) ==
    LET allBans == ds.blueBans \o ds.redBans
        allPicks == ds.bluePicks \o ds.redPicks
        fearlessUsed == ds.fearlessUsedChampions
    IN  Includes(allBans, champion) \/ Includes(allPicks, champion)
        \/ Includes(fearlessUsed, champion)

\* a fearless check that never refuses
FearlessBlocked_Never(room, action, champion) == FALSE

\* server.js:185  fearless check for picks against the room's canonical set
FearlessBlocked(room, action, champion) ==
    action = "pick" /\ room.fearlessDraftEnabled
    /\ Includes(room.fearlessUsedChampions, champion)

\* an add that records nothing for a ban of the red team
AddChampion_DropsRedBan(room, team, action, champion) ==
    IF action = "ban"
    THEN IF team = "blue"
         THEN [room EXCEPT !.draftState.blueBans = Append(@, champion)]
         ELSE room
    ELSE LET r1 == IF team = "blue"
                   THEN [room EXCEPT !.draftState.bluePicks = Append(@, champion)]
                   ELSE [room EXCEPT !.draftState.redPicks = Append(@, champion)]
         IN  IF room.fearlessDraftEnabled
             THEN LET used == SetAdd(r1.fearlessUsedChampions, champion)
                  IN  [r1 EXCEPT !.fearlessUsedChampions = used,
                                 !.draftState.fearlessUsedChampions = used]
             ELSE r1

\* server.js:190-208  add champion to appropriate list
AddChampion(room, team, action, champion) ==
    IF action = "ban"
    THEN IF team = "blue"
         THEN [room EXCEPT !.draftState.blueBans = Append(@, champion)]
         ELSE [room EXCEPT !.draftState.redBans = Append(@, champion)]
    ELSE LET r1 == IF team = "blue"
                   THEN [room EXCEPT !.draftState.bluePicks = Append(@, champion)]
                   ELSE [room EXCEPT !.draftState.redPicks = Append(@, champion)]
         IN  IF room.fearlessDraftEnabled
             THEN LET used == SetAdd(r1.fearlessUsedChampions, champion)
                  IN  [r1 EXCEPT !.fearlessUsedChampions = used,
                                 !.draftState.fearlessUsedChampions = used]
             ELSE r1

\* a turn advance that moves two steps at a time
AdvanceTurn_TwoSteps(ds) ==
    LET turn == ds.currentTurn + 2 IN
    IF turn < Len(DRAFT_ORDER)
    THEN [ds EXCEPT !.currentTurn = turn,
                    !.currentTeam = Step(turn).team,
                    !.currentAction = Step(turn).action]
    ELSE [ds EXCEPT !.currentTurn = turn,
                    !.phase = "complete",
                    !.currentTeam = Null,
                    !.currentAction = Null]

\* server.js:210-221  advance to next turn (shared by both servers, 852-863)
AdvanceTurn(ds) ==
    LET turn == ds.currentTurn + 1 IN
    IF turn < Len(DRAFT_ORDER)
    THEN [ds EXCEPT !.currentTurn = turn,
                    !.currentTeam = Step(turn).team,
                    !.currentAction = Step(turn).action]
    ELSE [ds EXCEPT !.currentTurn = turn,
                    !.phase = "complete",
                    !.currentTeam = Null,
                    !.currentAction = Null]

\* processDraftAction(champion, playerTeam, room) of the fearless server:
\* the result and the room as the call leaves it
processDraftAction(champion, playerTeam, room) ==
    LET ds == room.draftState IN
    IF ds.phase # "drafting"
    THEN [success |-> FALSE, error |-> "Draft not in progress", room |-> room]
    ELSE IF ds.currentTurn >= Len(DRAFT_ORDER)
    THEN [success |-> FALSE, error |-> "Draft already complete",
          room |-> [room EXCEPT !.draftState.phase = "complete"]]
    ELSE
    LET team == Step(ds.currentTurn).team
        action == Step(ds.currentTurn).action
    IN
    IF ~OwnsTurn(playerTeam, team)
    THEN [success |-> FALSE, error |-> "Not your turn", room |-> room]
    ELSE IF ChampionTaken(ds, champion)
    THEN [success |-> FALSE,
          error |-> "Champion already banned, picked, or used in fearless mode",
          room |-> room]
    ELSE IF FearlessBlocked(room, action, champion)
    THEN [success |-> FALSE,
          error |-> "Champion already used in this Fearless session",
          room |-> room]
    ELSE
    LET r1 == AddChampion(room, team, action, champion)
    IN  [success |-> TRUE, error |-> Null,
         room |-> [r1 EXCEPT !.draftState = AdvanceTurn(@)]]

\* ------------------------------------------------- registry and broadcast
\* the display name a client sends as data.playerName: its own
PlayerName(c) == c

IsOpen(c) == c # NoConn /\ conn[c].ready = "open"

\* server.js:117-123
cancelRoomCleanup(timers, roomId) == timers \ {roomId}

\* server.js:100-115 (arming; the callback is CleanupTimerFires)
scheduleRoomCleanup(timers, roomId) == timers \cup {roomId}

\* server.js:89-98
deleteRoom(rs, roomId) == [ x \in (DOMAIN rs) \ {roomId} |-> rs[x] ]

SpectatorNames(room) == [ i \in 1..Len(room.spectators) |-> room.spectators[i].name ]

\* server.js:125-139  one copy of message per slot that holds an open
\* connection other than excludeWs: blue, red, then the spectators in order
broadcastToRoom(room, message, excludeWs) ==
    LET players == SelectSeq(<<room.bluePlayer, room.redPlayer>>,
                             LAMBDA p : p # NoConn /\ p # excludeWs /\ IsOpen(p))
        specs == SelectSeq(room.spectators,
                           LAMBDA sp : sp.ws # NoConn /\ sp.ws # excludeWs /\ IsOpen(sp.ws))
    IN  [ i \in 1..Len(players) |-> [to |-> players[i], msg |-> message] ]
        \o [ i \in 1..Len(specs) |-> [to |-> specs[i].ws, msg |-> message] ]

\* ws.send(JSON.stringify(message))
SendTo(c, message) == << [to |-> c, msg |-> message] >>

ErrorTo(c, text) == SendTo(c, [type |-> "error", message |-> text])

\* the room a connection's closure variable currentRoom refers to
RoomOf(c) == rooms[conn[c].currentRoom]

InRoom(c) == conn[c].currentRoom # NoRoom

\* what a handler leaves behind: the registry, the connections' closure
\* variables, the cleanup timers, and the messages it sent, in order
Effect(rs, cn, timers, sent) ==
    [rooms |-> rs, conn |-> cn, timers |-> timers, out |-> sent]

\* a refusal that tells the whole room
Rejected_ToldToRoom(c, text) ==
    Effect(rooms, conn, roomCleanupTimers,
           IF InRoom(c)
           THEN broadcastToRoom(RoomOf(c), [type |-> "error", message |-> text], NoConn)
           ELSE ErrorTo(c, text))

\* a handler that only answers the sender with an error
Rejected(c, text) == Effect(rooms, conn, roomCleanupTimers, ErrorTo(c, text))

\* the step of the server that runs a handler to its end
Apply(e) ==
    /\ rooms' = e.rooms
    /\ conn' = e.conn
    /\ roomCleanupTimers' = e.timers

\* ------------------------------------------------ fearless server: handlers
\* case 'create_room', the generated code being roomCode
OnCreateRoom(c, roomCode) ==
    LET room == [createNewRoom(roomCode) EXCEPT
                    !.bluePlayer = c,
                    !.bluePlayerName = PlayerName(c),
                    !.host = c]
    IN  Effect([ x \in (DOMAIN rooms) \cup {roomCode} |->
                    IF x = roomCode THEN room ELSE rooms[x] ],
               [conn EXCEPT ![c].currentRoom = roomCode, ![c].currentTeam = "blue"],
               cancelRoomCleanup(roomCleanupTimers, roomCode),
               SendTo(c, [type |-> "room_created", roomCode |-> roomCode,
                          team |-> "blue", isHost |-> TRUE,
                          draftState |-> room.draftState,
                          fearlessDraftEnabled |-> room.fearlessDraftEnabled]))

CreateRoom(c) ==
    /\ variant = "fearless"
    /\ IsOpen(c)
    /\ \E roomCode \in codes \ DOMAIN rooms :
        /\ \A other \in codes \ DOMAIN rooms : roomCode <= other
        /\ Apply(OnCreateRoom(c, roomCode))
    /\ UNCHANGED <<client, variant, codes, inflight, applied, nDrafts, earlierPicks>>

\* case 'join_room'
OnJoinRoom(c, roomCode) ==
    IF roomCode \notin DOMAIN rooms
    THEN Rejected(c, "Room not found")
    ELSE LET room == rooms[roomCode]
             joinedTeam == IF room.redPlayer = NoConn THEN "red" ELSE "spectator"
             room2 == IF joinedTeam = "red"
                      THEN [room EXCEPT !.redPlayer = c,
                                        !.redPlayerName = PlayerName(c)]
                      ELSE [room EXCEPT !.spectators =
                                Append(@, [ws |-> c, name |-> PlayerName(c)])]
             notice == IF joinedTeam = "red"
                       THEN [type |-> "opponent_joined", opponentName |-> PlayerName(c)]
                       ELSE [type |-> "room_update",
                             bluePlayerName |-> room2.bluePlayerName,
                             redPlayerName |-> room2.redPlayerName,
                             spectators |-> SpectatorNames(room2)]
         IN  Effect([rooms EXCEPT ![roomCode] = room2],
                    [conn EXCEPT ![c].currentRoom = roomCode,
                                 ![c].currentTeam = joinedTeam],
                    cancelRoomCleanup(roomCleanupTimers, roomCode),
                    broadcastToRoom(room2, notice, c)
                    \o SendTo(c, [type |-> "room_joined", roomCode |-> roomCode,
                                  team |-> joinedTeam, isHost |-> FALSE,
                                  draftState |-> room2.draftState,
                                  fearlessDraftEnabled |-> room2.fearlessDraftEnabled,
                                  bluePlayerName |-> room2.bluePlayerName,
                                  redPlayerName |-> room2.redPlayerName,
                                  spectators |-> SpectatorNames(room2)]))

JoinRoom(c, roomCode) ==
    /\ variant = "fearless"
    /\ IsOpen(c)
    /\ LET e == OnJoinRoom(c, roomCode)
       IN  /\ \A r \in DOMAIN e.rooms : Len(e.rooms[r].spectators) <= MaxSpectators
           /\ Apply(e)
    /\ UNCHANGED <<client, variant, codes, inflight, applied, nDrafts, earlierPicks>>

\* server.js:343, 403, 431  currentTeam !== 'blue' (negated): the test the
\* three host-only handlers apply to the sender
MayActAsHost(c) == conn[c].currentTeam = "blue"

\* case 'start_draft'
OnStartDraft(c) ==
    IF ~InRoom(c) THEN Rejected(c, "Not in a room")
    ELSE IF ~MayActAsHost(c)
    THEN Rejected(c, "Only the room creator can start the draft")
    ELSE LET r0 == resetDraft(RoomOf(c))
             room == [r0 EXCEPT !.draftState.phase = "drafting",
                                !.draftState.currentTeam = Step(0).team,
                                !.draftState.currentAction = Step(0).action]
         IN  Effect([rooms EXCEPT ![room.id] = room], conn, roomCleanupTimers,
                    broadcastToRoom(room, [type |-> "draft_started",
                                           draftState |-> room.draftState], NoConn))

StartDraftAccepted(c) == InRoom(c) /\ MayActAsHost(c)

StartDraft(c) ==
    /\ variant = "fearless"
    /\ IsOpen(c)
    /\ IF StartDraftAccepted(c)
       THEN nDrafts < MaxDrafts /\ nDrafts' = nDrafts + 1
       ELSE UNCHANGED nDrafts
    /\ Apply(OnStartDraft(c))
    /\ UNCHANGED <<client, variant, codes, inflight, applied, earlierPicks>>

\* case 'draft_action', for a message carrying data.champion
OnDraftAction(c, champion) ==
    IF ~InRoom(c) THEN Rejected(c, "Not in a room")
    ELSE LET result == processDraftAction(champion, conn[c].currentTeam, RoomOf(c))
             room == result.room
         IN  Effect([rooms EXCEPT ![room.id] = room], conn, roomCleanupTimers,
                    IF result.success
                    THEN broadcastToRoom(room,
                            [type |-> "draft_update",
                             draftState |-> room.draftState,
                             champion |-> champion,
                             team |-> conn[c].currentTeam,
                             action |-> room.draftState.currentAction], NoConn)
                    ELSE ErrorTo(c, result.error))

\* Champions are opaque names to the server: what a handler does with one
\* depends only on which collections of the room hold it.  The inputs tried
\* are one champion (the least) of every such kind.
ChampionKind(room, ch) ==
    << Includes(room.draftState.blueBans \o room.draftState.redBans, ch),
       Includes(room.draftState.bluePicks \o room.draftState.redPicks, ch),
       Includes(room.draftState.fearlessUsedChampions, ch),
       Includes(room.fearlessUsedChampions, ch) >>

ChampionInputsFor(room) ==
    LET kind == [ ch \in Champions |-> ChampionKind(room, ch) ]
    IN  { ch \in Champions : \A other \in 1..(ch - 1) : kind[other] # kind[ch] }

ChampionInputs(c) == IF ~InRoom(c) THEN {1} ELSE ChampionInputsFor(RoomOf(c))

\* a draft_action message sent and handled with nothing in between
DraftAction(c, champion) ==
    /\ variant = "fearless"
    /\ IsOpen(c)
    /\ LET e == OnDraftAction(c, champion)
       IN  /\ \A r \in DOMAIN e.rooms :
                  Len(e.rooms[r].fearlessUsedChampions) <= MaxFearlessUsed
           /\ Apply(e)
    /\ UNCHANGED <<client, variant, codes, inflight, applied, nDrafts, earlierPicks>>

\* the champions a click may name while messages are in flight: the
\* champion of the client's latest message again (a double click), or the
\* least champion neither in the lists nor in flight
ClickInputs(c) ==
    IF ~InRoom(c) THEN {}
    ELSE
    LET room == RoomOf(c)
        fresh == { ch \in Champions :
                     /\ ChampionKind(room, ch) = <<FALSE, FALSE, FALSE, FALSE>>
                     /\ \A d \in Conns : \A i \in 1..Len(inflight[d]) :
                            inflight[d][i].champion # ch }
    IN  { inflight[c][i].champion : i \in {Len(inflight[c])} \ {0} }
        \cup { ch \in fresh : \A other \in fresh : ch <= other }

\* js/draft.js:541-558 handleChampionClick and js/multiplayer.js:1224-1229
\* sendDraftAction, for a client whose gameState is the room's latest
\* DraftState: the checks on phase, myTeam and currentTeam, then the message
\* {type: 'draft_action', champion}.  The message carries the champion only;
\* seenTurn and seenDraft record what the client saw when it sent it.
SendDraftAction(c, champion) ==
    /\ variant = "fearless"
    /\ IsOpen(c) /\ InRoom(c)
    /\ RoomOf(c).draftState.phase = "drafting"
    /\ conn[c].currentTeam # "spectator"
    /\ RoomOf(c).draftState.currentTeam = conn[c].currentTeam
    /\ Len(inflight[c]) < MaxInFlight
    /\ RoomOf(c).draftState.currentTurn <= MaxSeenTurn
    /\ inflight' = [inflight EXCEPT ![c] =
           Append(@, [champion |-> champion,
                      seenTurn |-> RoomOf(c).draftState.currentTurn,
                      seenDraft |-> nDrafts])]
    /\ UNCHANGED <<client, variant, codes, rooms, roomCleanupTimers, conn, applied, nDrafts, earlierPicks>>

\* ws.on('message') for the oldest draft_action of c still in flight
ReceiveDraftAction(c) ==
    /\ variant = "fearless"
    /\ IsOpen(c)
    /\ inflight[c] # << >>
    /\ LET m == Head(inflight[c])
           e == OnDraftAction(c, m.champion)
       IN  /\ Apply(e)
           /\ applied' = IF e.rooms # rooms THEN applied \cup {m} ELSE applied
    /\ inflight' = [inflight EXCEPT ![c] = Tail(@)]
    /\ UNCHANGED <<client, variant, codes, nDrafts, earlierPicks>>

\* case 'toggle_fearless'
OnToggleFearless(c, enabled) ==
    IF ~InRoom(c) THEN Rejected(c, "Not in a room")
    ELSE IF ~MayActAsHost(c)
    THEN Rejected(c, "Only the room creator can toggle Fearless Draft")
    ELSE LET room == [RoomOf(c) EXCEPT !.fearlessDraftEnabled = enabled]
         IN  Effect([rooms EXCEPT ![room.id] = room], conn, roomCleanupTimers,
                    broadcastToRoom(room, [type |-> "fearless_toggled",
                                           enabled |-> enabled], NoConn))

ToggleFearless(c, enabled) ==
    /\ variant = "fearless"
    /\ IsOpen(c)
    /\ OnToggleFearless(c, enabled).rooms # rooms
            => RoomOf(c).draftState.currentTurn <= MaxToggleTurn
    /\ Apply(OnToggleFearless(c, enabled))
    /\ UNCHANGED <<client, variant, codes, inflight, applied, nDrafts, earlierPicks>>

\* a reset_fearless that also throws the running draft away
OnResetFearless_DropsDraft(c) ==
    IF ~InRoom(c) THEN Rejected(c, "Not in a room")
    ELSE IF ~MayActAsHost(c)
    THEN Rejected(c, "Only the room creator can reset Fearless session")
    ELSE LET room == [RoomOf(c) EXCEPT !.fearlessUsedChampions = << >>,
                                       !.draftState = NewDraftState(<< >>)]
         IN  Effect([rooms EXCEPT ![room.id] = room], conn, roomCleanupTimers,
                    broadcastToRoom(room, [type |-> "fearless_reset"], NoConn))

\* case 'reset_fearless'
OnResetFearless(c) ==
    IF ~InRoom(c) THEN Rejected(c, "Not in a room")
    ELSE IF ~MayActAsHost(c)
    THEN Rejected(c, "Only the room creator can reset Fearless session")
    ELSE LET room == [RoomOf(c) EXCEPT !.fearlessUsedChampions = << >>,
                                       !.draftState.fearlessUsedChampions = << >>]
         IN  Effect([rooms EXCEPT ![room.id] = room], conn, roomCleanupTimers,
                    broadcastToRoom(room, [type |-> "fearless_reset"], NoConn))

ResetFearless(c) ==
    /\ variant = "fearless"
    /\ IsOpen(c)
    /\ Apply(OnResetFearless(c))
    /\ UNCHANGED <<client, variant, codes, inflight, applied, nDrafts, earlierPicks>>

\* --------------------------------------- fearless server: a fearless session
\* The four handlers that read or write the fearless fields, with the history
\* of the session kept beside them: earlierPicks holds the champions picked
\* in the drafts that start_draft has replaced since the last reset_fearless.
SessionStartDraft(c) ==
    /\ variant = "fearless"
    /\ IsOpen(c)
    /\ IF StartDraftAccepted(c)
       THEN /\ nDrafts < MaxDrafts
            /\ nDrafts' = nDrafts + 1
            /\ earlierPicks' = earlierPicks
                   \cup Range(RoomOf(c).draftState.bluePicks)
                   \cup Range(RoomOf(c).draftState.redPicks)
       ELSE UNCHANGED <<nDrafts, earlierPicks>>
    /\ Apply(OnStartDraft(c))
    /\ UNCHANGED <<client, variant, codes, inflight, applied>>

SessionDraftAction(c, champion) ==
    /\ variant = "fearless"
    /\ IsOpen(c)
    /\ InRoom(c) => RoomOf(c).draftState.currentTurn <= MaxSessionTurn
    /\ LET e == OnDraftAction(c, champion)
       IN  /\ \A r \in DOMAIN e.rooms :
                  Len(e.rooms[r].fearlessUsedChampions) <= MaxSessionUsed
           /\ Apply(e)
    /\ UNCHANGED <<client, variant, codes, inflight, applied, nDrafts, earlierPicks>>

SessionToggleFearless(c, enabled) ==
    /\ variant = "fearless"
    /\ IsOpen(c)
    /\ Apply(OnToggleFearless(c, enabled))
    /\ UNCHANGED <<client, variant, codes, inflight, applied, nDrafts, earlierPicks>>

SessionResetFearless(c) ==
    /\ variant = "fearless"
    /\ IsOpen(c)
    /\ Apply(OnResetFearless(c))
    /\ earlierPicks' = IF InRoom(c) /\ MayActAsHost(c) THEN {} ELSE earlierPicks
    /\ UNCHANGED <<client, variant, codes, inflight, applied, nDrafts>>

\* server.js:497-506 and 553-561  remove the connection from the position
\* its closure variable currentTeam names
Vacate(room, c, team) ==
    IF team = "blue"
    THEN [room EXCEPT !.bluePlayer = NoConn, !.bluePlayerName = NoConn]
    ELSE IF team = "red"
    THEN [room EXCEPT !.redPlayer = NoConn, !.redPlayerName = NoConn]
    ELSE IF team = "spectator"
    THEN [room EXCEPT !.spectators = SelectSeq(@, LAMBDA sp : sp.ws # c)]
    ELSE room

\* server.js:508-520  add the connection to its new position
Occupy(room, c, newTeam) ==
    IF newTeam = "blue"
    THEN [room EXCEPT !.bluePlayer = c, !.bluePlayerName = PlayerName(c)]
    ELSE IF newTeam = "red"
    THEN [room EXCEPT !.redPlayer = c, !.redPlayerName = PlayerName(c)]
    ELSE [room EXCEPT !.spectators = Append(@, [ws |-> c, name |-> PlayerName(c)])]

\* a switch_team that pays no attention to the draft
SwitchBlockedByDraft_Never(room) == FALSE

\* server.js:471-478  can't switch during an active draft
SwitchBlockedByDraft(room) == room.draftState.phase = "drafting"

\* case 'switch_team'
OnSwitchTeam(c, newTeam) ==
    IF ~InRoom(c) THEN Rejected(c, "Not in a room")
    ELSE IF newTeam \notin {"blue", "red", "spectator"}
    THEN Rejected(c, "Invalid team")
    ELSE IF SwitchBlockedByDraft(RoomOf(c))
    THEN Rejected(c, "Cannot switch teams during an active draft")
    ELSE IF newTeam = "blue" /\ RoomOf(c).bluePlayer # NoConn /\ RoomOf(c).bluePlayer # c
    THEN Rejected(c, "Blue team is already occupied")
    ELSE IF newTeam = "red" /\ RoomOf(c).redPlayer # NoConn /\ RoomOf(c).redPlayer # c
    THEN Rejected(c, "Red team is already occupied")
    ELSE LET room == Occupy(Vacate(RoomOf(c), c, conn[c].currentTeam), c, newTeam)
         IN  Effect([rooms EXCEPT ![room.id] = room],
                    [conn EXCEPT ![c].currentTeam = newTeam],
                    roomCleanupTimers,
                    SendTo(c, [type |-> "team_switched", team |-> newTeam,
                               isHost |-> (c = room.host),
                               draftState |-> room.draftState])
                    \o broadcastToRoom(room,
                          [type |-> "room_update",
                           bluePlayerName |-> room.bluePlayerName,
                           redPlayerName |-> room.redPlayerName,
                           spectators |-> SpectatorNames(room)], c))

SwitchTeam(c, newTeam) ==
    /\ variant = "fearless"
    /\ IsOpen(c)
    /\ Apply(OnSwitchTeam(c, newTeam))
    /\ UNCHANGED <<client, variant, codes, inflight, applied, nDrafts, earlierPicks>>

\* an emptiness test that overlooks the spectators
RoomEmpty_NoPlayers(room) == room.bluePlayer = NoConn /\ room.redPlayer = NoConn

\* server.js:575  the room has no blue player, no red player, no spectators
RoomEmpty(room) ==
    room.bluePlayer = NoConn /\ room.redPlayer = NoConn /\ Len(room.spectators) = 0

\* ws.on('close') of the fearless server.  The socket is CLOSED when the
\* handler runs, so the broadcast skips it; its closure is never read again
\* and is cleared here.
OnClose(c) ==
    LET closed == [conn EXCEPT ![c] = [ready |-> "closed", currentRoom |-> NoRoom,
                                       currentTeam |-> Null]]
    IN
    IF ~InRoom(c) THEN Effect(rooms, closed, roomCleanupTimers, << >>)
    ELSE LET room == Vacate(RoomOf(c), c, conn[c].currentTeam)
         IN  Effect([rooms EXCEPT ![room.id] = room], closed,
                    IF RoomEmpty(room)
                    THEN scheduleRoomCleanup(roomCleanupTimers, room.id)
                    ELSE roomCleanupTimers,
                    SelectSeq(broadcastToRoom(room,
                                [type |-> "player_disconnected",
                                 team |-> conn[c].currentTeam,
                                 bluePlayerName |-> room.bluePlayerName,
                                 redPlayerName |-> room.redPlayerName,
                                 spectators |-> SpectatorNames(room)], NoConn),
                              LAMBDA m : m.to # c))

CloseFearless(c) ==
    /\ variant = "fearless"
    /\ IsOpen(c)
    /\ Apply(OnClose(c))
    /\ inflight' = [inflight EXCEPT ![c] = << >>]
    /\ UNCHANGED <<client, variant, codes, applied, nDrafts, earlierPicks>>

\* server.js:105-111  the cleanup timer of a room fires
CleanupTimerFires(roomId) ==
    /\ variant = "fearless"
    /\ roomId \in roomCleanupTimers
    /\ rooms' = IF roomId \in DOMAIN rooms /\ RoomEmpty(rooms[roomId])
                THEN deleteRoom(rooms, roomId)
                ELSE rooms
    /\ roomCleanupTimers' = roomCleanupTimers \ {roomId}
    /\ UNCHANGED <<client, variant, codes, conn, inflight, applied, nDrafts, earlierPicks>>

\* ------------------------------------------------- captain server: objects
\* server.js:684  const defaultRoomId = uuidv4()
defaultRoomId == 1

\* server.js:688-712
createNewRoomCaptain(roomId) ==
    [ id |-> roomId,
      draftState |->
        [ phase |-> "idle", currentTurn |-> 0,
          blueBans |-> << >>, redBans |-> << >>,
          bluePicks |-> << >>, redPicks |-> << >>,
          currentTeam |-> "blue", currentAction |-> "ban",
          braveryModeUsedChampions |-> << >>,
          bluePlayers |-> << >>, redPlayers |-> << >>,
          blueCaptain |-> NoName, redCaptain |-> NoName,
          hostName |-> NoName ],
      isBraveryMode |-> FALSE,
      braveryModeUsedChampions |-> << >>,
      clients |-> {} ]

\* server.js:788-805
resetDraftCaptain(room) ==
    [ room EXCEPT !.draftState =
        [ phase |-> "idle", currentTurn |-> 0,
          blueBans |-> << >>, redBans |-> << >>,
          bluePicks |-> << >>, redPicks |-> << >>,
          currentTeam |-> "blue", currentAction |-> "ban",
          braveryModeUsedChampions |-> << >>,
          bluePlayers |-> room.draftState.bluePlayers,
          redPlayers |-> room.draftState.redPlayers,
          blueCaptain |-> room.draftState.blueCaptain,
          redCaptain |-> room.draftState.redCaptain,
          hostName |-> room.draftState.hostName ] ]

\* server.js:775-786  the draft state and the mode flag, to every open client
broadcastState(room) ==
    LET message == [type |-> "draft_update", gameState |-> room.draftState,
                    isBraveryMode |-> room.isBraveryMode]
        open == { cl \in room.clients : IsOpen(cl) }
        RECURSIVE ToAll(_)
        ToAll(S) == IF S = {} THEN << >>
                    ELSE LET m == CHOOSE x \in S : \A y \in S : x <= y
                         IN  SendTo(m, message) \o ToAll(S \ {m})
    IN  ToAll(open)

\* server.js:822-827  a ban is refused unless the sender names the captain
\* of the team whose turn it is
CaptainRefuses(ds, team, action, playerName) ==
    action = "ban"
    /\ playerName # (IF team = "blue" THEN ds.blueCaptain ELSE ds.redCaptain)

\* server.js:830-833
ChampionTakenCaptain(ds, champion) ==
    LET allBans == ds.blueBans \o ds.redBans \o ds.braveryModeUsedChampions
        allPicks == ds.bluePicks \o ds.redPicks
    IN  Includes(allBans, champion) \/ Includes(allPicks, champion)

\* server.js:838-850
AddChampionCaptain(ds, team, action, champion) ==
    IF action = "ban"
    THEN IF team = "blue"
         THEN [ds EXCEPT !.blueBans = Append(@, champion)]
         ELSE [ds EXCEPT !.redBans = Append(@, champion)]
    ELSE IF team = "blue"
         THEN [ds EXCEPT !.bluePicks = Append(@, champion)]
         ELSE [ds EXCEPT !.redPicks = Append(@, champion)]

\* processDraftAction(champion, playerName, room) of the captain server: the
\* result, the room as the call leaves it, and the broadcast it makes
processDraftActionCaptain(champion, playerName, room) ==
    LET ds == room.draftState IN
    IF ds.phase # "drafting"
    THEN [success |-> FALSE, error |-> "Draft not in progress", room |-> room,
          out |-> << >>]
    ELSE IF ds.currentTurn >= Len(DRAFT_ORDER)
    THEN [success |-> FALSE, error |-> "Draft already complete",
          room |-> [room EXCEPT !.draftState.phase = "complete"], out |-> << >>]
    ELSE
    LET team == Step(ds.currentTurn).team
        action == Step(ds.currentTurn).action
    IN
    IF CaptainRefuses(ds, team, action, playerName)
    THEN [success |-> FALSE, error |-> "Only the captain can ban champions.",
          room |-> room, out |-> << >>]
    ELSE IF ChampionTakenCaptain(ds, champion)
    THEN [success |-> FALSE, error |-> "Champion already banned or picked",
          room |-> room, out |-> << >>]
    ELSE
    LET r1 == [room EXCEPT !.draftState =
                    AdvanceTurn(AddChampionCaptain(@, team, action, champion))]
    IN  [success |-> TRUE, error |-> Null, room |-> r1, out |-> broadcastState(r1)]

\* server.js:766-773  the room whose clients hold the socket (the first in
\* the registry's key order), or null
getRoomFromClient(c) ==
    LET holding == { r \in DOMAIN rooms : c \in rooms[r].clients }
    IN  IF holding = {} THEN NoRoom
        ELSE CHOOSE r \in holding : \A other \in holding : r <= other

\* server.js:733-754 (arming; the callback is CleanupTimerFiresCaptain)
scheduleRoomCleanupCaptain(timers, roomId) ==
    IF roomId = defaultRoomId THEN timers ELSE timers \cup {roomId}

\* ------------------------------------------------ captain server: handlers
\* wss.on('connection') with ?roomId=... in the URL (the default room when
\* the parameter is missing)
OnConnect(c, roomId) ==
    LET rs == IF roomId \in DOMAIN rooms THEN rooms
              ELSE [ x \in (DOMAIN rooms) \cup {roomId} |->
                        IF x = roomId THEN createNewRoomCaptain(roomId) ELSE rooms[x] ]
        room == [rs[roomId] EXCEPT !.clients = @ \cup {c}]
    IN  Effect([rs EXCEPT ![roomId] = room],
               [conn EXCEPT ![c].ready = "open"],
               cancelRoomCleanup(roomCleanupTimers, roomId),
               SendTo(c, [type |-> "draft_update", gameState |-> room.draftState]))

ConnectCaptain(c, roomId) ==
    /\ variant = "captain"
    /\ conn[c].ready = "none"
    /\ \A d \in Clients : d < c => conn[d].ready # "none"
    /\ Apply(OnConnect(c, roomId))
    /\ UNCHANGED <<client, variant, codes, inflight, applied, nDrafts, earlierPicks>>

\* a message handler of the captain server runs only if the socket is in a room
Attached(c) == IsOpen(c) /\ getRoomFromClient(c) # NoRoom

RoomOfClient(c) == rooms[getRoomFromClient(c)]

\* the handler changed (or kept) the sender's room and sent these messages
InRoomEffect(room, sent) ==
    Effect([rooms EXCEPT ![room.id] = room], conn, roomCleanupTimers, sent)

\* case 'join_team'
OnJoinTeam(c, targetTeam, playerName, isCaptain) ==
    LET room == RoomOfClient(c)
        ds0 == room.draftState
        \* Set host if this is the first player joining
        ds1 == IF ds0.hostName = NoName THEN [ds0 EXCEPT !.hostName = playerName] ELSE ds0
        \* Remove player from both teams first
        ds2 == [ds1 EXCEPT !.bluePlayers = SelectSeq(@, LAMBDA p : p # playerName),
                           !.redPlayers = SelectSeq(@, LAMBDA p : p # playerName)]
        \* Clear captain status
        ds3 == [ds2 EXCEPT !.blueCaptain = IF @ = playerName THEN NoName ELSE @,
                           !.redCaptain = IF @ = playerName THEN NoName ELSE @]
        captainOfTarget == IF targetTeam = "blue" THEN ds3.blueCaptain ELSE ds3.redCaptain
    IN
    IF isCaptain /\ captainOfTarget # NoName /\ captainOfTarget # playerName
    THEN InRoomEffect([room EXCEPT !.draftState = ds3],
                      ErrorTo(c, "This team already has a captain."))
    ELSE
    LET ds4 == IF targetTeam = "blue"
               THEN [ds3 EXCEPT !.bluePlayers = SetAdd(@, playerName),
                                !.blueCaptain = IF isCaptain THEN playerName ELSE @]
               ELSE IF targetTeam = "red"
               THEN [ds3 EXCEPT !.redPlayers = SetAdd(@, playerName),
                                !.redCaptain = IF isCaptain THEN playerName ELSE @]
               ELSE ds3
        r1 == [room EXCEPT !.draftState = ds4]
    IN  InRoomEffect(r1, broadcastState(r1))

JoinTeam(c, targetTeam, playerName, isCaptain) ==
    /\ variant = "captain"
    /\ Attached(c)
    /\ Apply(OnJoinTeam(c, targetTeam, playerName, isCaptain))
    /\ UNCHANGED <<client, variant, codes, inflight, applied, nDrafts, earlierPicks>>

\* case 'set_bravery_mode'
OnSetBraveryMode(c, playerName, enabled) ==
    LET room == RoomOfClient(c) IN
    IF playerName # room.draftState.hostName
    THEN Rejected(c, "Only the host can toggle Bravery Mode.")
    ELSE LET r1 == [room EXCEPT !.isBraveryMode = enabled]
         IN  InRoomEffect(r1, broadcastState(r1))

SetBraveryMode(c, playerName, enabled) ==
    /\ variant = "captain"
    /\ Attached(c)
    /\ OnSetBraveryMode(c, playerName, enabled).rooms # rooms
            => RoomOfClient(c).draftState.currentTurn <= MaxToggleTurn
    /\ Apply(OnSetBraveryMode(c, playerName, enabled))
    /\ UNCHANGED <<client, variant, codes, inflight, applied, nDrafts, earlierPicks>>

\* case 'reset_bravery_session'
OnResetBraverySession(c, playerName) ==
    LET room == RoomOfClient(c) IN
    IF playerName # room.draftState.hostName
    THEN Rejected(c, "Only the host can reset Bravery Mode session.")
    ELSE LET r1 == [room EXCEPT !.braveryModeUsedChampions = << >>,
                                !.draftState.braveryModeUsedChampions = << >>]
         IN  InRoomEffect(r1, broadcastState(r1)
                              \o SendTo(c, [type |-> "notification",
                                            message |-> "Bravery Mode session has been reset."]))

ResetBraverySession(c, playerName) ==
    /\ variant = "captain"
    /\ Attached(c)
    /\ Apply(OnResetBraverySession(c, playerName))
    /\ UNCHANGED <<client, variant, codes, inflight, applied, nDrafts, earlierPicks>>

\* case 'begin_draft' / case 'start_draft' of the captain server
OnStartDraftCaptain(c) ==
    LET r0 == resetDraftCaptain(RoomOfClient(c))
        r1 == IF r0.isBraveryMode
              THEN [r0 EXCEPT !.draftState.braveryModeUsedChampions =
                                    r0.braveryModeUsedChampions]
              ELSE r0
        r2 == [r1 EXCEPT !.draftState.phase = "drafting",
                         !.draftState.currentTeam = Step(0).team,
                         !.draftState.currentAction = Step(0).action]
    IN  InRoomEffect(r2, broadcastState(r2))

StartDraftCaptain(c) ==
    /\ variant = "captain"
    /\ Attached(c)
    /\ nDrafts < MaxDraftsCaptain
    /\ nDrafts' = nDrafts + 1
    /\ Apply(OnStartDraftCaptain(c))
    /\ UNCHANGED <<client, variant, codes, inflight, applied, earlierPicks>>

\* case 'ban' / case 'pick': type is the data.type the client chose
OnBanPick(c, type, champion, playerName) ==
    LET room == RoomOfClient(c) IN
    IF type = "pick" /\ room.isBraveryMode
       /\ Includes(room.braveryModeUsedChampions, champion)
    THEN Effect(rooms, conn, roomCleanupTimers,
                SendTo(c, [type |-> "pick_rejected", champion |-> champion,
                           reason |-> "Champion already used in this Bravery Mode session."]))
    ELSE LET result == processDraftActionCaptain(champion, playerName, room)
         IN  IF result.success
             THEN InRoomEffect(
                    IF type = "pick" /\ room.isBraveryMode
                    THEN [result.room EXCEPT !.braveryModeUsedChampions =
                                                    SetAdd(@, champion)]
                    ELSE result.room,
                    result.out)
             ELSE InRoomEffect(result.room, ErrorTo(c, result.error))

ChampionKindCaptain(room, ch) ==
    << Includes(room.draftState.blueBans \o room.draftState.redBans, ch),
       Includes(room.draftState.bluePicks \o room.draftState.redPicks, ch),
       Includes(room.draftState.braveryModeUsedChampions, ch),
       Includes(room.braveryModeUsedChampions, ch) >>

ChampionInputsCaptain(c) ==
    IF getRoomFromClient(c) = NoRoom THEN {1}
    ELSE LET kind == [ ch \in Champions |-> ChampionKindCaptain(RoomOfClient(c), ch) ]
         IN  { ch \in Champions : \A other \in 1..(ch - 1) : kind[other] # kind[ch] }

BanPick(c, type, champion, playerName) ==
    /\ variant = "captain"
    /\ Attached(c)
    /\ LET e == OnBanPick(c, type, champion, playerName)
       IN  /\ \A r \in DOMAIN e.rooms :
                  Len(e.rooms[r].braveryModeUsedChampions) <= MaxBraveryUsed
           /\ Apply(e)
    /\ UNCHANGED <<client, variant, codes, inflight, applied, nDrafts, earlierPicks>>

\* ws.on('close') of the captain server
OnCloseCaptain(c) ==
    LET closed == [conn EXCEPT ![c].ready = "closed"]
        roomId == getRoomFromClient(c)
    IN
    IF roomId = NoRoom THEN Effect(rooms, closed, roomCleanupTimers, << >>)
    ELSE LET room == [rooms[roomId] EXCEPT !.clients = @ \ {c}]
         IN  Effect([rooms EXCEPT ![roomId] = room], closed,
                    IF room.clients = {}
                    THEN scheduleRoomCleanupCaptain(roomCleanupTimers, roomId)
                    ELSE roomCleanupTimers,
                    << >>)

CloseCaptain(c) ==
    /\ variant = "captain"
    /\ IsOpen(c)
    /\ Apply(OnCloseCaptain(c))
    /\ UNCHANGED <<client, variant, codes, inflight, applied, nDrafts, earlierPicks>>


\* case 'connect_to_room': the socket moves to room targetRoomId, which is
\* created if it is missing; the room it leaves gets no cleanup timer and
\* the timer of the room it enters is not cancelled
OnConnectToRoom(c, targetRoomId) ==
    LET rs == IF targetRoomId \in DOMAIN rooms THEN rooms
              ELSE [ x \in (DOMAIN rooms) \cup {targetRoomId} |->
                        IF x = targetRoomId THEN createNewRoomCaptain(targetRoomId)
                        ELSE rooms[x] ]
        currentRoom == getRoomFromClient(c)
        left == IF currentRoom # targetRoomId
                THEN [rs EXCEPT ![currentRoom].clients = @ \ {c}]
                ELSE rs
        entered == [left EXCEPT ![targetRoomId].clients = @ \cup {c}]
    IN  Effect(entered, conn, roomCleanupTimers,
               SendTo(c, [type |-> "draft_update",
                          gameState |-> entered[targetRoomId].draftState]))

ConnectToRoom(c, targetRoomId) ==
    /\ variant = "captain"
    /\ Attached(c)
    /\ Apply(OnConnectToRoom(c, targetRoomId))
    /\ UNCHANGED <<client, variant, codes, inflight, applied, nDrafts, earlierPicks>>

\* server.js:714-731
deleteRoomCaptain(rs, roomId) ==
    IF roomId = defaultRoomId THEN rs
    ELSE [ x \in (DOMAIN rs) \ {roomId} |-> rs[x] ]

\* server.js:745-750  the cleanup timer of a room of the captain server fires
CleanupTimerFiresCaptain(roomId) ==
    /\ variant = "captain"
    /\ roomId \in roomCleanupTimers
    /\ rooms' = IF roomId \in DOMAIN rooms /\ rooms[roomId].clients = {}
                THEN deleteRoomCaptain(rooms, roomId)
                ELSE rooms
    /\ roomCleanupTimers' = roomCleanupTimers \ {roomId}
    /\ UNCHANGED <<client, variant, codes, conn, inflight, applied, nDrafts, earlierPicks>>

\* GET /api/draft/default-room: the HTTP handler registers a room under a
\* fresh identifier; no socket is attached and no cleanup timer is armed
AllocateRoom(newRoomId) ==
    /\ variant = "captain"
    /\ newRoomId \in codes \ DOMAIN rooms
    /\ rooms' = [ x \in (DOMAIN rooms) \cup {newRoomId} |->
                    IF x = newRoomId THEN createNewRoomCaptain(newRoomId) ELSE rooms[x] ]
    /\ UNCHANGED <<client, variant, codes, roomCleanupTimers, conn, inflight, applied, nDrafts,
                   earlierPicks>>

\* ------------------------------------------- client (js/multiplayer.js:524-)
\* js/multiplayer.js:539, 543, 557
maxReconnectAttempts == 10
maxHeartbeatMissed == 3
maxMessageRetries == 3

\* js/multiplayer.js:1277
criticalMessages == {"draft_action", "start_draft", "create_room", "join_room"}

\* a message of the client; messageId 0 stands for a message without one
Msg(type) ==
    [ type |-> type, messageId |-> 0, roomCode |-> NoRoom, team |-> Null,
      champion |-> 0, timestamp |-> 0 ]

\* Map.prototype.set and Map.prototype.get(...) || 0 on a Map with integer values
Put(f, k, v) == [ x \in (DOMAIN f) \cup {k} |-> IF x = k THEN v ELSE f[x] ]

Get0(f, k) == IF k \in DOMAIN f THEN f[k] ELSE 0

Min(a, b) == IF a <= b THEN a ELSE b

\* Math.pow(2, n) for an integer n >= 0
RECURSIVE Pow2(_)
Pow2(n) == IF n <= 0 THEN 1 ELSE 2 * Pow2(n - 1)

\* js/multiplayer.js:524-560  the module's variables when it is loaded.
\* ws is the socket the variable ws refers to (NoConn for null), readyState
\* its readyState; orphan says that a socket leaveRoom let go of has not
\* delivered its close event yet; awaiting is the continuation of the
\* pending connectWebSocket() promise; reconnectTimeout is the delay of the
\* pending reconnect timer (0 when none); pingTimer and retryTimers are the
\* pending setTimeout calls of startHeartbeat and of sendMessage and
\* retryMessage; now is Date.now().  sent, transmissions, acked,
\* notifications and delivered record what the latest callback handed to
\* ws.send, how often each messageId went out on the current socket, the
\* messageIds whose ack took them out of pendingMessages, the error notices
\* shown and the latest call of the draft callback.
\* js/ui.js:124-136  gameState, fearlessDraftEnabled and fearlessUsedChampions
\* of the draft screen (localStorage empty); advanceTimers counts the pending
\* setTimeout calls of handleChampionClick, soloDrafts the solo drafts entered
\* and earlyClicks the clicks accepted while such a call was pending.
ClientInit ==
    [ ws |-> NoConn, readyState |-> Null, orphan |-> FALSE, awaiting |-> << >>,
      connectionState |-> "disconnected",
      isMultiplayerMode |-> FALSE, isReconnecting |-> FALSE,
      reconnectAttempts |-> 0, reconnectTimeout |-> 0,
      currentRoomCode |-> NoRoom, currentTeam |-> Null,
      heartbeatInterval |-> FALSE, pingTimer |-> FALSE, heartbeatMissed |-> 0,
      lastPingTime |-> 0, lastPongTime |-> 0, now |-> 1,
      messageQueue |-> << >>, messageIdCounter |-> 0,
      pendingMessages |-> {}, messageRetryAttempts |-> << >>, retryTimers |-> {},
      lastKnownDraftState |-> << >>,
      sent |-> << >>, transmissions |-> << >>, acked |-> {},
      notifications |-> {}, delivered |-> << >>,
      wire |-> << >>, inbox |-> << >>,
      gameState |-> [ phase |-> "idle", currentTeam |-> "blue", currentAction |-> "ban",
                      blueBans |-> << >>, redBans |-> << >>,
                      bluePicks |-> << >>, redPicks |-> << >> ],
      fearlessDraftEnabled |-> FALSE, fearlessUsedChampions |-> {},
      advanceTimers |-> 0, soloDrafts |-> 0, earlyClicks |-> 0 ]

\* the start of a callback: nothing handed to ws.send yet
Begin(cl) == [cl EXCEPT !.sent = << >>]

\* ws && ws.readyState === WebSocket.OPEN
SocketOpen(cl) == cl.ws # NoConn /\ cl.readyState = "open"

\* showNotification(text, 'error'), for the notices the properties speak of
notify(cl, text, messageId) ==
    [cl EXCEPT !.notifications = @ \cup {[text |-> text, messageId |-> messageId]}]

\* ws.send(JSON.stringify(message)) on an open socket
transmit(cl, m) ==
    [cl EXCEPT !.sent = Append(@, m),
               !.transmissions = IF m.messageId = 0 THEN @
                                 ELSE Put(@, m.messageId, Get0(@, m.messageId) + 1)]

\* js/multiplayer.js:1188-1196
queueMessage(cl, message) ==
    LET q == Append(cl.messageQueue, message)
    IN  [cl EXCEPT !.messageQueue = IF Len(q) > 50 THEN Tail(q) ELSE q]

\* js/multiplayer.js:1264-1318  (ws.send does not throw on an open socket)
sendMessage(cl, message) ==
    LET fresh == message.messageId = 0
        id == IF fresh THEN cl.messageIdCounter + 1 ELSE message.messageId
        m == [message EXCEPT !.messageId = id]
        c1 == [cl EXCEPT !.messageIdCounter = IF fresh THEN @ + 1 ELSE @]
        isCritical == m.type \in criticalMessages
    IN  IF SocketOpen(c1)
        THEN LET c2 == transmit(c1, m)
             IN  IF isCritical
                 THEN [c2 EXCEPT
                         !.pendingMessages =
                             { x \in @ : x.messageId # id } \cup {m},
                         !.messageRetryAttempts = Put(@, id, 0),
                         !.retryTimers = @ \cup {id}]
                 ELSE c2
        ELSE queueMessage(c1, m)

\* Map.prototype.delete on pendingMessages and messageRetryAttempts
forget(cl, id) ==
    [cl EXCEPT !.pendingMessages = { x \in @ : x.messageId # id },
               !.messageRetryAttempts = [ x \in (DOMAIN @) \ {id} |-> @[x] ]]

\* a retry limit that lets one more retry through
RetryExhausted_OneMore(attempts) == attempts > maxMessageRetries

\* js/multiplayer.js:1331
RetryExhausted(attempts) == attempts >= maxMessageRetries

\* js/multiplayer.js:1323-1358  the callback of a retry timer
retryMessage(cl, id) ==
    IF \A x \in cl.pendingMessages : x.messageId # id THEN cl
    ELSE LET message == CHOOSE x \in cl.pendingMessages : x.messageId = id
             attempts == Get0(cl.messageRetryAttempts, id)
         IN  IF RetryExhausted(attempts)
             THEN notify(forget(cl, id), "Failed to send. Please try again.", id)
             ELSE IF SocketOpen(cl)
             THEN [transmit([cl EXCEPT !.messageRetryAttempts =
                                           Put(@, id, attempts + 1)], message)
                     EXCEPT !.retryTimers = @ \cup {id}]
             ELSE queueMessage(forget(cl, id), message)

\* js/multiplayer.js:1176-1183
handleMessageAck(cl, messageId) ==
    IF \E x \in cl.pendingMessages : x.messageId = messageId
    THEN [forget(cl, messageId) EXCEPT !.acked = @ \cup {messageId}]
    ELSE cl

\* js/multiplayer.js:1201-1210
RECURSIVE flushMessageQueue(_)
flushMessageQueue(cl) ==
    IF cl.messageQueue = << >> THEN cl
    ELSE flushMessageQueue(sendMessage([cl EXCEPT !.messageQueue = Tail(@)],
                                       Head(cl.messageQueue)))

\* js/multiplayer.js:1084-1092
stopHeartbeat(cl) ==
    [cl EXCEPT !.heartbeatInterval = FALSE, !.heartbeatMissed = 0,
               !.lastPingTime = 0, !.lastPongTime = 0]

\* js/multiplayer.js:1046-1079 (arming; the callbacks are heartbeatTick and sendPing)
startHeartbeat(cl) ==
    [stopHeartbeat(cl) EXCEPT !.heartbeatInterval = TRUE, !.pingTimer = TRUE]

\* js/multiplayer.js:1097-1106
sendPing(cl) ==
    IF SocketOpen(cl)
    THEN transmit([cl EXCEPT !.lastPingTime = cl.now],
                  [Msg("ping") EXCEPT !.timestamp = cl.now])
    ELSE cl

\* ws.close(): the close event follows later
wsClose(cl) ==
    IF cl.readyState \in {"connecting", "open"}
    THEN [cl EXCEPT !.readyState = "closing"]
    ELSE cl

\* js/multiplayer.js:1050-1075  the callback of the heartbeat interval
heartbeatTick(cl) ==
    IF SocketOpen(cl)
    THEN IF cl.lastPingTime > 0 /\ cl.lastPongTime < cl.lastPingTime
         THEN LET c1 == [cl EXCEPT !.heartbeatMissed = @ + 1]
              IN  IF c1.heartbeatMissed >= maxHeartbeatMissed
                  THEN wsClose(stopHeartbeat(c1))
                  ELSE sendPing(c1)
         ELSE sendPing([cl EXCEPT !.heartbeatMissed = 0])
    ELSE stopHeartbeat(cl)

\* js/multiplayer.js:1111-1130  (the latency statistics are left out)
handlePong(cl) == [cl EXCEPT !.lastPongTime = cl.now]

\* a backoff that starts at two seconds
ReconnectDelay_FromTwoSeconds(attempts) == Min(1000 * Pow2(attempts), 30000)

\* js/multiplayer.js:1027
ReconnectDelay(attempts) == Min(1000 * Pow2(attempts - 1), 30000)

\* js/multiplayer.js:1018-1041 (arming; the callback is reconnectTimerFired)
scheduleReconnect(cl) ==
    [cl EXCEPT !.reconnectAttempts = @ + 1,
               !.isReconnecting = TRUE,
               !.reconnectTimeout = ReconnectDelay(cl.reconnectAttempts + 1)]

\* js/multiplayer.js:673
MayReschedule(cl) ==
    cl.isMultiplayerMode /\ ~cl.isReconnecting
    /\ cl.reconnectAttempts < maxReconnectAttempts

\* js/multiplayer.js:665-679  ws.onclose
onclose(cl) ==
    LET c1 == stopHeartbeat([cl EXCEPT !.connectionState = "disconnected"])
    IN  IF MayReschedule(c1) THEN scheduleReconnect(c1)
        ELSE IF c1.reconnectAttempts >= maxReconnectAttempts
        THEN notify(c1, "Connection lost. Please refresh the page.", 0)
        ELSE c1

\* the promise of connectWebSocket() is rejected: the catch blocks of
\* createRoom, joinRoom and reconnectToRoom (js/multiplayer.js:967-971,
\* 987-991, 1010-1012) log and show a notice, and send nothing
reject(cl) == [cl EXCEPT !.awaiting = << >>]

\* js/multiplayer.js:653-663  ws.onerror
onerror(cl) ==
    LET c1 == [cl EXCEPT !.connectionState = "disconnected"]
    IN  IF ~c1.isReconnecting THEN reject(c1) ELSE c1

\* the promise of connectWebSocket() is resolved: the statements after the
\* await in createRoom (961-965), joinRoom (980-985) and reconnectToRoom
\* (1003-1009)
resolve(cl) ==
    IF cl.awaiting = << >> THEN cl
    ELSE LET then == cl.awaiting[1]
             c1 == [cl EXCEPT !.awaiting = << >>]
         IN  IF then.type = "rejoin_room"
             THEN sendMessage(c1, [Msg("rejoin_room") EXCEPT
                                     !.roomCode = c1.currentRoomCode,
                                     !.team = c1.currentTeam])
             ELSE [sendMessage(c1, then) EXCEPT !.isMultiplayerMode = TRUE]

\* js/multiplayer.js:641-651  ws.onopen, and the continuation it resolves
onopen(cl) ==
    resolve(flushMessageQueue(startHeartbeat(
        [cl EXCEPT !.readyState = "open", !.connectionState = "connected",
                   !.reconnectAttempts = 0, !.isReconnecting = FALSE])))

\* js/multiplayer.js:617-640  connectWebSocket() up to new WebSocket(wsUrl),
\* sock being the new socket and then the request that waits for it
connectWebSocket(cl, sock, then) ==
    [cl EXCEPT !.connectionState = IF cl.isReconnecting THEN "reconnecting"
                                   ELSE "connecting",
               !.ws = sock, !.readyState = "connecting",
               !.awaiting = << then >>,
               !.transmissions = << >>]

\* js/multiplayer.js:626-636  the connection timeout of a socket that is
\* still connecting
connectionTimedOut(cl) ==
    reject([wsClose(cl) EXCEPT !.connectionState = "disconnected"])

\* js/multiplayer.js:997-1002  reconnectToRoom() up to the await
reconnectToRoom(cl, sock) ==
    IF cl.currentRoomCode = NoRoom \/ cl.currentTeam = Null THEN cl
    ELSE connectWebSocket(cl, sock, Msg("rejoin_room"))

\* js/multiplayer.js:1032-1040  the callback of the reconnect timer
reconnectTimerFired(cl, sock) ==
    LET c1 == [cl EXCEPT !.reconnectTimeout = 0]
    IN  IF c1.currentRoomCode # NoRoom /\ c1.isMultiplayerMode
        THEN reconnectToRoom(c1, sock)
        ELSE c1

\* a leaveRoom() that keeps the tracking maps
clearTracking_KeepsMaps(cl) == cl

\* js/multiplayer.js:1690-1692
clearTracking(cl) == [cl EXCEPT !.pendingMessages = {}, !.messageRetryAttempts = << >>]

\* js/multiplayer.js:1660-1701  (the latency statistics are left out; the
\* promise of a connection attempt under way can only be rejected from now on)
leaveRoom(cl) ==
    LET c1 == stopHeartbeat([cl EXCEPT !.isMultiplayerMode = FALSE,
                                       !.isReconnecting = FALSE,
                                       !.reconnectTimeout = 0])
        c2 == [c1 EXCEPT
                 !.orphan = @ \/ (cl.ws # NoConn
                                  /\ cl.readyState \in {"connecting", "open", "closing"}),
                 !.ws = NoConn, !.readyState = Null, !.awaiting = << >>,
                 !.currentRoomCode = NoRoom, !.currentTeam = Null,
                 !.reconnectAttempts = 0, !.messageQueue = << >>,
                 !.connectionState = "disconnected"]
    IN  [clearTracking(c2) EXCEPT !.lastPingTime = 0, !.lastPongTime = 0]

\* the number of bans and picks of a DraftState
TotalActions(ds) ==
    Len(ds.blueBans) + Len(ds.redBans) + Len(ds.bluePicks) + Len(ds.redPicks)

\* js/multiplayer.js:728-738  oldState is << >> for null
hasStateChanged(oldState, newState) ==
    IF oldState = << >> THEN TRUE
    ELSE TotalActions(newState) > TotalActions(oldState[1])

\* onDraftUpdateCallback(draftState, team, isSync), the callback being registered
deliver(cl, type, draftState, isSync) ==
    [cl EXCEPT !.lastKnownDraftState = << draftState >>,
               !.delivered = << [type |-> type, draftState |-> draftState,
                                 isSync |-> isSync] >>]

\* js/multiplayer.js:743-953  handleServerMessage, for the message types
\* that change the module's variables
handleServerMessage(cl, data) ==
    CASE data.type \in {"room_created", "room_joined"} ->
            deliver([cl EXCEPT !.currentRoomCode = data.roomCode,
                               !.currentTeam = data.team],
                    data.type, data.draftState, TRUE)
      [] data.type = "team_switched" ->
            deliver([cl EXCEPT !.currentTeam = data.team],
                    data.type, data.draftState, TRUE)
      [] data.type = "draft_started" ->
            deliver(cl, data.type, data.draftState, FALSE)
      [] data.type = "draft_update" ->
            deliver(cl, data.type, data.draftState,
                    ~hasStateChanged(cl.lastKnownDraftState, data.draftState))
      [] OTHER -> cl

\* js/multiplayer.js:681-714  ws.onmessage (no message of the servers asks
\* for an acknowledgment)
onmessage(cl, data) ==
    LET c1 == [cl EXCEPT !.heartbeatMissed = 0]
    IN  CASE data.type = "pong" -> handlePong(c1)
          [] data.type = "ack" -> handleMessageAck(c1, data.messageId)
          [] OTHER -> handleServerMessage(c1, data)

\* ------------------------------------------------------ client: callbacks
serverVars ==
    <<variant, codes, rooms, roomCleanupTimers, conn, inflight, applied, nDrafts,
      earlierPicks>>

\* createRoom() on a page that holds no socket (js/multiplayer.js:958-960)
UserCreateRoom ==
    /\ client.ws = NoConn
    /\ client.messageIdCounter < MaxMessages
    /\ client' = connectWebSocket(Begin(client), 1, Msg("create_room"))
    /\ UNCHANGED serverVars

\* joinRoom(roomCode) on a page that holds no socket (js/multiplayer.js:977-979)
UserJoinRoom(roomCode) ==
    /\ client.ws = NoConn
    /\ client.messageIdCounter < MaxMessages
    /\ client' = connectWebSocket(Begin(client), 1,
                                  [Msg("join_room") EXCEPT !.roomCode = roomCode])
    /\ UNCHANGED serverVars

\* the open event of the socket that is connecting
SocketOpens ==
    /\ client.ws # NoConn /\ client.readyState = "connecting"
    /\ client.messageIdCounter < MaxMessages
    /\ client' = onopen(Begin(client))
    /\ UNCHANGED serverVars

\* the connection attempt fails: the error event, then the close event
SocketFails ==
    /\ client.ws # NoConn /\ client.readyState = "connecting"
    /\ client' = [onclose(onerror(Begin(client))) EXCEPT !.readyState = "closed"]
    /\ UNCHANGED serverVars

\* ten seconds pass without an open, error or close event
ConnectionTimeout ==
    /\ client.ws # NoConn /\ client.readyState = "connecting"
    /\ client' = connectionTimedOut(Begin(client))
    /\ UNCHANGED serverVars

\* the close event of a socket that ws.close() was called on
SocketClosed ==
    /\ client.ws # NoConn /\ client.readyState = "closing"
    /\ client' = [onclose(Begin(client)) EXCEPT !.readyState = "closed"]
    /\ UNCHANGED serverVars

\* the close event of an open socket that the network or the server dropped
SocketDropped ==
    /\ client.ws # NoConn /\ client.readyState = "open"
    /\ client' = [onclose(Begin(client)) EXCEPT !.readyState = "closed"]
    /\ UNCHANGED serverVars

\* the close event of the socket leaveRoom() closed and let go of
OrphanClosed ==
    /\ client.orphan
    /\ client' = [onclose(Begin(client)) EXCEPT !.orphan = FALSE]
    /\ UNCHANGED serverVars

ReconnectTimerFires ==
    /\ client.reconnectTimeout # 0
    /\ client' = reconnectTimerFired(Begin(client), 1)
    /\ UNCHANGED serverVars

\* setInterval(..., 15000) of startHeartbeat
HeartbeatTick ==
    /\ client.heartbeatInterval
    /\ client.now < MaxNow
    /\ client' = heartbeatTick([Begin(client) EXCEPT !.now = @ + 1])
    /\ UNCHANGED serverVars

\* setTimeout(() => sendPing(), 1000) of startHeartbeat
InitialPingFires ==
    /\ client.pingTimer
    /\ client.now < MaxNow
    /\ client' = sendPing([Begin(client) EXCEPT !.now = @ + 1, !.pingTimer = FALSE])
    /\ UNCHANGED serverVars

\* setTimeout(() => retryMessage(messageId), ...) of sendMessage and retryMessage
RetryTimerFires(messageId) ==
    /\ messageId \in client.retryTimers
    /\ client' = retryMessage([Begin(client) EXCEPT !.retryTimers = @ \ {messageId}],
                              messageId)
    /\ UNCHANGED serverVars

\* an ack arrives for a message that went out on this socket (neither
\* server of server.js sends one; a server that follows the wire protocol does)
ReceiveAck(messageId) ==
    /\ SocketOpen(client)
    /\ messageId \in DOMAIN client.transmissions
    /\ client' = onmessage(Begin(client), [type |-> "ack", messageId |-> messageId])
    /\ UNCHANGED serverVars

\* room_created or room_joined arrives at a client that asked for a room
ReceiveRoomReply(team) ==
    /\ SocketOpen(client)
    /\ client.isMultiplayerMode /\ client.currentRoomCode = NoRoom
    /\ client' = onmessage(Begin(client),
          [type |-> IF team = "blue" THEN "room_created" ELSE "room_joined",
           roomCode |-> 1, team |-> team, draftState |-> NewDraftState(<< >>)])
    /\ UNCHANGED serverVars

\* js/draft.js:541-558 and js/multiplayer.js:1224-1229  a click on a champion
UserSendDraftAction ==
    /\ client.isMultiplayerMode
    /\ client.currentRoomCode # NoRoom
    /\ client.currentTeam \in {"blue", "red"}
    /\ client.messageIdCounter < MaxMessages
    /\ client' = sendMessage(Begin(client), [Msg("draft_action") EXCEPT !.champion = 1])
    /\ UNCHANGED serverVars

UserLeaveRoom ==
    /\ client.ws # NoConn
    /\ client' = leaveRoom(Begin(client))
    /\ UNCHANGED serverVars

\* ------------------------------------------- the page against server.js
\* server.js:234-548  ws.on('message'): the switch over data.type, roomCode
\* being the code generateRoomCode() returns for a create_room; the default
\* case (server.js:542-544) logs the type and sends nothing
OnMessage(c, data, roomCode) ==
    CASE data.type = "create_room" -> OnCreateRoom(c, roomCode)
      [] data.type = "join_room" -> OnJoinRoom(c, data.roomCode)
      [] data.type = "start_draft" -> OnStartDraft(c)
      [] data.type = "draft_action" -> OnDraftAction(c, data.champion)
      [] data.type = "switch_team" -> OnSwitchTeam(c, data.team)
      [] OTHER -> Effect(rooms, conn, roomCleanupTimers, << >>)

\* the connection of the second browser, and the sockets the page opens
Peer == 2
PageSockets == (1..(MaxSockets + 1)) \ {Peer}
LinkConns == PageSockets \cup {Peer}

\* new WebSocket(wsUrl): a connection the server has not seen yet
NewSocket == CHOOSE c \in PageSockets :
                 /\ conn[c].ready = "none"
                 /\ \A other \in PageSockets : conn[other].ready = "none" => c <= other

\* what ws.send() handed over travels to the server in order
Wire(cl) == [cl EXCEPT !.wire = @ \o cl.sent]

\* the messages of a handler's output that are addressed to the page's socket
ToPage(out) ==
    LET mine == SelectSeq(out, LAMBDA o : o.to = client.ws)
    IN  [ i \in 1..Len(mine) |-> mine[i].msg ]

\* a handler of the server runs; what it sends to the page's socket travels
\* to the page
ServerStep(e) ==
    /\ Apply(e)
    /\ client' = [client EXCEPT !.inbox = @ \o ToPage(e.out)]

linkFrame == <<variant, codes, inflight, applied, nDrafts, earlierPicks>>

\* nothing is travelling: the network delivers within the second that the
\* shortest timer of the page waits, and before the next click
Quiet == client.wire = << >> /\ client.inbox = << >>

\* the close event of the page's socket, with what was travelling lost
closed(cl) == [onclose(cl) EXCEPT !.readyState = "closed",
                                  !.wire = << >>, !.inbox = << >>]

\* createRoom() on a page that holds no socket (js/multiplayer.js:958-960)
PageCreatesRoom ==
    /\ client.ws = NoConn
    /\ client.messageIdCounter < MaxLinkMessages
    /\ \E c \in PageSockets : conn[c].ready = "none"
    /\ client' = connectWebSocket(Begin(client), NewSocket, Msg("create_room"))
    /\ UNCHANGED serverVars

\* joinRoom(roomCode) on a page that holds no socket (js/multiplayer.js:977-979)
PageJoinsRoom(roomCode) ==
    /\ client.ws = NoConn
    /\ client.messageIdCounter < MaxLinkMessages
    /\ \E c \in PageSockets : conn[c].ready = "none"
    /\ client' = connectWebSocket(Begin(client), NewSocket,
                                  [Msg("join_room") EXCEPT !.roomCode = roomCode])
    /\ UNCHANGED serverVars

\* the socket opens: wss.on('connection') (server.js:228-231) and ws.onopen
PageSocketOpens ==
    /\ client.ws # NoConn /\ client.readyState = "connecting"
    /\ conn[client.ws].ready = "none"
    /\ conn' = [conn EXCEPT ![client.ws] = [ready |-> "open", currentRoom |-> NoRoom,
                                            currentTeam |-> Null]]
    /\ client' = Wire(onopen(Begin(client)))
    /\ UNCHANGED <<rooms, roomCleanupTimers, linkFrame>>

\* the connection breaks: ws.on('close') on the server (server.js:551-584)
\* and ws.onclose on the page
PageSocketDrops ==
    /\ SocketOpen(client) /\ IsOpen(client.ws)
    /\ Apply(OnClose(client.ws))
    /\ client' = closed(Begin(client))
    /\ UNCHANGED linkFrame

\* the close events of a socket the page called ws.close() on
PageSocketClosed ==
    /\ client.ws # NoConn /\ client.readyState = "closing"
    /\ IsOpen(client.ws)
    /\ Apply(OnClose(client.ws))
    /\ client' = closed(Begin(client))
    /\ UNCHANGED linkFrame

PageReconnectTimerFires ==
    /\ client.reconnectTimeout # 0
    /\ \E c \in PageSockets : conn[c].ready = "none"
    /\ client' = reconnectTimerFired(Begin(client), NewSocket)
    /\ UNCHANGED serverVars

PageHeartbeatTick ==
    /\ Quiet
    /\ client.heartbeatInterval
    /\ client.now < MaxNow
    /\ client' = Wire(heartbeatTick([Begin(client) EXCEPT !.now = @ + 1]))
    /\ UNCHANGED serverVars

PageInitialPingFires ==
    /\ Quiet
    /\ client.pingTimer
    /\ client.now < MaxNow
    /\ client' = Wire(sendPing([Begin(client) EXCEPT !.now = @ + 1,
                                                     !.pingTimer = FALSE]))
    /\ UNCHANGED serverVars

PageRetryTimerFires(messageId) ==
    /\ Quiet
    /\ Get0(client.messageRetryAttempts, messageId) < MaxLinkRetries
    /\ messageId \in client.retryTimers
    /\ client' = Wire(retryMessage([Begin(client) EXCEPT !.retryTimers = @ \ {messageId}],
                                   messageId))
    /\ UNCHANGED serverVars

\* js/multiplayer.js:1215-1219  startDraft(), the host's button
PageStartsDraft ==
    /\ Quiet
    /\ client.isMultiplayerMode /\ client.currentTeam = "blue"
    /\ client.lastKnownDraftState # << >>
    /\ client.lastKnownDraftState[1].phase # "drafting"
    /\ client.messageIdCounter < MaxLinkMessages
    /\ client' = Wire(sendMessage(Begin(client), Msg("start_draft")))
    /\ UNCHANGED serverVars

\* js/multiplayer.js:1581-1592  switchTeam(team), on a page that is connected
PageSwitchesTeam(team) ==
    /\ Quiet
    /\ SocketOpen(client)
    /\ client.messageIdCounter < MaxLinkMessages
    /\ client.isMultiplayerMode /\ client.currentRoomCode # NoRoom
    /\ client.currentTeam # team
    /\ client.lastKnownDraftState # << >>
    /\ client.lastKnownDraftState[1].phase # "drafting"
    /\ client' = Wire(sendMessage(Begin(client), [Msg("switch_team") EXCEPT !.team = team]))
    /\ UNCHANGED serverVars

\* the champions of a draft state's four lists
Listed(ds) ==
    { ds.blueBans[i] : i \in 1..Len(ds.blueBans) }
    \cup { ds.redBans[i] : i \in 1..Len(ds.redBans) }
    \cup { ds.bluePicks[i] : i \in 1..Len(ds.bluePicks) }
    \cup { ds.redPicks[i] : i \in 1..Len(ds.redPicks) }

\* js/draft.js:541-558 and js/multiplayer.js:1224-1229  a click on the first
\* champion the page shows as free, while the page shows the player's turn
PageClicksChampion ==
    /\ Quiet
    /\ client.isMultiplayerMode
    /\ client.lastKnownDraftState # << >>
    /\ LET ds == client.lastKnownDraftState[1]
       IN  /\ ds.phase = "drafting"
           /\ ds.currentTeam = client.currentTeam
           /\ ds.currentTurn < MaxLinkTurn
           /\ client.messageIdCounter < MaxLinkMessages
           /\ \E champion \in Champions \ Listed(ds) :
                /\ \A other \in Champions \ Listed(ds) : champion <= other
                /\ client' = Wire(sendMessage(Begin(client),
                                     [Msg("draft_action") EXCEPT !.champion = champion]))
    /\ UNCHANGED serverVars

\* server.js:50-57  generateRoomCode(): a code that is not in use
FreeCodes == codes \ DOMAIN rooms

GeneratedCode ==
    IF FreeCodes = {} THEN NoRoom
    ELSE CHOOSE x \in FreeCodes : \A other \in FreeCodes : x <= other

\* ws.on('message') for the next message of the page
ServerReceives ==
    /\ client.wire # << >>
    /\ IsOpen(client.ws)
    /\ Head(client.wire).type = "create_room" => FreeCodes # {}
    /\ LET e == OnMessage(client.ws, Head(client.wire), GeneratedCode)
       IN  /\ Apply(e)
           /\ client' = [client EXCEPT !.wire = Tail(@),
                                       !.inbox = @ \o ToPage(e.out)]
    /\ UNCHANGED linkFrame

\* ws.onmessage for the next message of the server
PageReceives ==
    /\ client.inbox # << >>
    /\ SocketOpen(client)
    /\ client' = Wire(onmessage(Begin([client EXCEPT !.inbox = Tail(@)]),
                                Head(client.inbox)))
    /\ UNCHANGED serverVars

\* the second browser creates a room
PeerCreatesRoom ==
    /\ Quiet
    /\ IsOpen(Peer) /\ ~InRoom(Peer)
    /\ FreeCodes # {}
    /\ ServerStep(OnCreateRoom(Peer, GeneratedCode))
    /\ UNCHANGED linkFrame

\* the second browser, holding the blue slot, starts the draft
PeerStartsDraft ==
    /\ Quiet
    /\ IsOpen(Peer) /\ InRoom(Peer) /\ MayActAsHost(Peer)
    /\ RoomOf(Peer).draftState.phase # "drafting"
    /\ ServerStep(OnStartDraft(Peer))
    /\ UNCHANGED linkFrame

\* the second browser joins the page's room
PeerJoinsRoom(roomCode) ==
    /\ Quiet
    /\ IsOpen(Peer) /\ ~InRoom(Peer)
    /\ roomCode \in DOMAIN rooms
    /\ ServerStep(OnJoinRoom(Peer, roomCode))
    /\ UNCHANGED linkFrame

\* the second browser's player takes the first free champion on their turn
PeerDraftAction ==
    /\ Quiet
    /\ IsOpen(Peer) /\ InRoom(Peer)
    /\ LET ds == RoomOf(Peer).draftState
       IN  /\ ds.phase = "drafting"
           /\ ds.currentTeam = conn[Peer].currentTeam
           /\ ds.currentTurn < MaxLinkTurn
           /\ \E champion \in Champions \ Listed(ds) :
                /\ \A other \in Champions \ Listed(ds) : champion <= other
                /\ ServerStep(OnDraftAction(Peer, champion))
    /\ UNCHANGED linkFrame

\* ------------------------------------------------------------ specification
InitFearless ==
    /\ variant = "fearless"
    /\ codes = {1}
    /\ rooms = << >>
    /\ roomCleanupTimers = {}
    /\ conn = [ c \in Conns |-> [ready |-> "open", currentRoom |-> NoRoom,
                                 currentTeam |-> Null] ]
    /\ inflight = [ c \in Conns |-> << >> ]
    /\ applied = {}
    /\ nDrafts = 0
    /\ earlierPicks = {}
    /\ client = ClientInit

NextFearless ==
    \/ \E c \in Conns : CreateRoom(c)
    \/ \E c \in Conns, roomCode \in codes \cup {NoRoom} : JoinRoom(c, roomCode)
    \/ \E c \in Conns : StartDraft(c)
    \/ \E c \in Conns : \E champion \in ChampionInputs(c) : DraftAction(c, champion)
    \/ \E c \in Conns, enabled \in BOOLEAN : ToggleFearless(c, enabled)
    \/ \E c \in Conns : ResetFearless(c)
    \/ \E c \in Conns, newTeam \in {"blue", "red", "spectator", "top"} : SwitchTeam(c, newTeam)
    \/ \E c \in Conns : CloseFearless(c)
    \/ \E roomId \in codes : CleanupTimerFires(roomId)

\* the fearless server: rooms, slots, host, drafts, the session mode
SpecFearless == InitFearless /\ [][NextFearless]_vars

\* the fearless server after create_room by connection 1, join_room by
\* connection 2, start_draft by connection 1 and the six bans of the first
\* ban phase, which took champions 1 to 6 in turn
InitNet ==
    /\ variant = "fearless"
    /\ codes = {1}
    /\ rooms = [ x \in {1} |->
                   [createNewRoom(1) EXCEPT
                       !.bluePlayer = 1, !.bluePlayerName = PlayerName(1),
                       !.host = 1,
                       !.redPlayer = 2, !.redPlayerName = PlayerName(2),
                       !.draftState.phase = "drafting",
                       !.draftState.currentTurn = 6,
                       !.draftState.blueBans = <<1, 3, 5>>,
                       !.draftState.redBans = <<2, 4, 6>>,
                       !.draftState.currentTeam = Step(6).team,
                       !.draftState.currentAction = Step(6).action] ]
    /\ roomCleanupTimers = {}
    /\ conn = [ c \in Conns |->
                  [ready |-> "open",
                   currentRoom |-> IF c <= 2 THEN 1 ELSE NoRoom,
                   currentTeam |-> IF c = 1 THEN "blue"
                                   ELSE IF c = 2 THEN "red" ELSE Null] ]
    /\ inflight = [ c \in Conns |-> << >> ]
    /\ applied = {}
    /\ nDrafts = 1
    /\ earlierPicks = {}
    /\ client = ClientInit

\* one draft with draft_action messages in flight between a client's click
\* and the server's handler
NextNet ==
    \/ \E c \in Conns : \E champion \in ClickInputs(c) : SendDraftAction(c, champion)
    \/ \E c \in Conns : ReceiveDraftAction(c)

SpecNet == InitNet /\ [][NextNet]_vars

\* the fearless server after create_room by connection 1, join_room by
\* connection 2, toggle_fearless {enabled: true} and start_draft by
\* connection 1, and the six bans of the first ban phase (champions 1 to 6)
InitSession ==
    /\ variant = "fearless"
    /\ codes = {1}
    /\ rooms = [ x \in {1} |->
                   [createNewRoom(1) EXCEPT
                       !.bluePlayer = 1, !.bluePlayerName = PlayerName(1),
                       !.host = 1,
                       !.redPlayer = 2, !.redPlayerName = PlayerName(2),
                       !.fearlessDraftEnabled = TRUE,
                       !.draftState.phase = "drafting",
                       !.draftState.currentTurn = 6,
                       !.draftState.blueBans = <<1, 3, 5>>,
                       !.draftState.redBans = <<2, 4, 6>>,
                       !.draftState.currentTeam = Step(6).team,
                       !.draftState.currentAction = Step(6).action] ]
    /\ roomCleanupTimers = {}
    /\ conn = [ c \in Conns |->
                  [ready |-> "open",
                   currentRoom |-> IF c <= 2 THEN 1 ELSE NoRoom,
                   currentTeam |-> IF c = 1 THEN "blue"
                                   ELSE IF c = 2 THEN "red" ELSE Null] ]
    /\ inflight = [ c \in Conns |-> << >> ]
    /\ applied = {}
    /\ nDrafts = 1
    /\ earlierPicks = {}
    /\ client = ClientInit

\* a fearless session: drafts, picks, toggles and resets of one room
NextSession ==
    \/ \E c \in Conns : SessionStartDraft(c)
    \/ \E c \in Conns : \E champion \in ChampionInputs(c) : SessionDraftAction(c, champion)
    \/ \E c \in Conns, enabled \in BOOLEAN : SessionToggleFearless(c, enabled)
    \/ \E c \in Conns : SessionResetFearless(c)

SpecSession == InitSession /\ [][NextSession]_vars

\* the captain server before any connection, for clients that may name a
\* second room in the URL or in connect_to_room
InitCleanupCaptain ==
    /\ variant = "captain"
    /\ codes = {defaultRoomId, defaultRoomId + 1}
    /\ rooms = [ x \in {defaultRoomId} |-> createNewRoomCaptain(defaultRoomId) ]
    /\ roomCleanupTimers = {}
    /\ conn = [ c \in Conns |-> [ready |-> "none", currentRoom |-> NoRoom,
                                 currentTeam |-> Null] ]
    /\ inflight = [ c \in Conns |-> << >> ]
    /\ applied = {}
    /\ nDrafts = 0
    /\ earlierPicks = {}
    /\ client = ClientInit

\* rooms filling, emptying and being cleaned up, on either server
InitCleanup == InitFearless \/ InitCleanupCaptain

NextCleanup ==
    \/ \E c \in Conns : CreateRoom(c)
    \/ \E c \in Conns, roomCode \in codes : JoinRoom(c, roomCode)
    \/ \E c \in Conns, newTeam \in {"blue", "red", "spectator"} : SwitchTeam(c, newTeam)
    \/ \E c \in Conns : CloseFearless(c)
    \/ \E roomId \in codes : CleanupTimerFires(roomId)
    \/ \E c \in Conns, roomId \in codes : ConnectCaptain(c, roomId)
    \/ \E c \in Conns, targetRoomId \in codes : ConnectToRoom(c, targetRoomId)
    \/ \E c \in Conns : CloseCaptain(c)
    \/ \E roomId \in codes : CleanupTimerFiresCaptain(roomId)

SpecCleanup == InitCleanup /\ [][NextCleanup]_vars

\* the room identifiers the cleanup specifications range over
CleanupRooms == {defaultRoomId, defaultRoomId + 1}

NextCleanupLive ==
    \/ \E c \in Conns : CreateRoom(c)
    \/ \E c \in Conns, roomCode \in codes : JoinRoom(c, roomCode)
    \/ \E c \in Conns, newTeam \in {"blue", "red", "spectator"} : SwitchTeam(c, newTeam)
    \/ \E c \in Conns : CloseFearless(c)
    \/ \E roomId \in codes : CleanupTimerFires(roomId)
    \/ \E newRoomId \in codes : AllocateRoom(newRoomId)
    \/ \E c \in Conns, roomId \in codes : ConnectCaptain(c, roomId)
    \/ \E c \in Conns, targetRoomId \in codes : ConnectToRoom(c, targetRoomId)
    \/ \E c \in Conns : CloseCaptain(c)
    \/ \E roomId \in codes : CleanupTimerFiresCaptain(roomId)

\* setTimeout callbacks are run by the event loop once their delay has
\* passed: an armed cleanup timer that is not cancelled eventually fires
CleanupFairness ==
    /\ WF_vars(\E roomId \in CleanupRooms : CleanupTimerFires(roomId))
    /\ WF_vars(\E roomId \in CleanupRooms : CleanupTimerFiresCaptain(roomId))

\* rooms filling, emptying and being cleaned up, with HTTP room allocation
\* and with timers that fire
SpecCleanupLive == InitCleanup /\ [][NextCleanupLive]_vars /\ CleanupFairness

\* the captain server starts with the default room in its registry
InitCaptain ==
    /\ variant = "captain"
    /\ codes = {defaultRoomId}
    /\ rooms = [ x \in {defaultRoomId} |-> createNewRoomCaptain(defaultRoomId) ]
    /\ roomCleanupTimers = {}
    /\ conn = [ c \in Conns |-> [ready |-> IF c \in Clients THEN "none" ELSE "closed",
                                 currentRoom |-> NoRoom, currentTeam |-> Null] ]
    /\ inflight = [ c \in Conns |-> << >> ]
    /\ applied = {}
    /\ nDrafts = 0
    /\ earlierPicks = {}
    /\ client = ClientInit

NextCaptain ==
    \/ \E c \in Clients, roomId \in codes : ConnectCaptain(c, roomId)
    \/ \E c \in Clients, targetTeam \in {"blue", "red"}, playerName \in Players,
          isCaptain \in BOOLEAN : JoinTeam(c, targetTeam, playerName, isCaptain)
    \/ \E c \in Clients, playerName \in Players, enabled \in BOOLEAN :
          SetBraveryMode(c, playerName, enabled)
    \/ \E c \in Clients, playerName \in Players : ResetBraverySession(c, playerName)
    \/ \E c \in Clients : StartDraftCaptain(c)
    \/ \E c \in Clients, type \in {"ban", "pick"}, playerName \in Players :
          \E champion \in ChampionInputsCaptain(c) : BanPick(c, type, champion, playerName)
    \/ \E c \in Clients : CloseCaptain(c)

\* the captain server: named players, captains, host name, the bravery mode
SpecCaptain == InitCaptain /\ [][NextCaptain]_vars

\* either server
Init == InitFearless \/ InitCaptain

Next ==
    \/ variant = "fearless" /\ NextFearless
    \/ variant = "captain" /\ NextCaptain

Spec == Init /\ [][Next]_vars

\* the page alone, before createRoom() or joinRoom(): the events of its
\* socket and the messages it receives are inputs
InitClient == InitFearless

\* the page against server.js, which sends neither pong nor ack: every
\* timer, every socket event, the user creating, joining, clicking, leaving
NextClient ==
    \/ UserCreateRoom
    \/ \E roomCode \in codes : UserJoinRoom(roomCode)
    \/ SocketOpens
    \/ SocketFails
    \/ ConnectionTimeout
    \/ SocketClosed
    \/ SocketDropped
    \/ OrphanClosed
    \/ ReconnectTimerFires
    \/ HeartbeatTick
    \/ InitialPingFires
    \/ \E messageId \in 1..MaxMessages : RetryTimerFires(messageId)
    \/ \E team \in {"blue", "red"} : ReceiveRoomReply(team)
    \/ UserSendDraftAction
    \/ UserLeaveRoom

SpecClient == InitClient /\ [][NextClient]_vars

\* the page's critical messages: sent, queued, retried, acknowledged
NextAck ==
    \/ UserCreateRoom
    \/ SocketOpens
    \/ SocketFails
    \/ SocketDropped
    \/ ReconnectTimerFires
    \/ \E messageId \in 1..MaxMessages : RetryTimerFires(messageId)
    \/ \E messageId \in 1..MaxMessages : ReceiveAck(messageId)
    \/ \E team \in {"blue", "red"} : ReceiveRoomReply(team)
    \/ UserSendDraftAction

\* a setTimeout callback runs once its delay has passed
RetryFairness == \A messageId \in 1..MaxMessages : WF_vars(RetryTimerFires(messageId))

SpecAck == InitClient /\ [][NextAck]_vars /\ RetryFairness

\* the page's connection: opening, failing, dropping, the heartbeat, the
\* reconnect timer, leaving
NextReconnect ==
    \/ UserCreateRoom
    \/ \E roomCode \in codes : UserJoinRoom(roomCode)
    \/ SocketOpens
    \/ SocketFails
    \/ ConnectionTimeout
    \/ SocketClosed
    \/ SocketDropped
    \/ OrphanClosed
    \/ ReconnectTimerFires
    \/ HeartbeatTick
    \/ InitialPingFires
    \/ \E team \in {"blue", "red"} : ReceiveRoomReply(team)
    \/ UserLeaveRoom

SpecReconnect == InitClient /\ [][NextReconnect]_vars

\* the reconnect timer fires once its delay has passed, a connection
\* attempt ends (open, error or timeout), and a socket that was told to
\* close delivers its close event
ReconnectFairness ==
    /\ WF_vars(ReconnectTimerFires)
    /\ WF_vars(SocketOpens \/ SocketFails \/ ConnectionTimeout)
    /\ WF_vars(SocketClosed)
    /\ WF_vars(OrphanClosed)

SpecReconnectLive == InitClient /\ [][NextReconnect]_vars /\ ReconnectFairness

\* the page of one browser against the fearless server, with a second
\* browser that joins the page's room and drafts for the other side
InitLink ==
    /\ variant = "fearless"
    /\ codes = 1..(MaxLinkRetries + 2)
    /\ rooms = << >>
    /\ roomCleanupTimers = {}
    /\ conn = [ c \in LinkConns |->
                  [ready |-> IF c = Peer THEN "open" ELSE "none",
                   currentRoom |-> NoRoom, currentTeam |-> Null] ]
    /\ inflight = [ c \in Conns |-> << >> ]
    /\ applied = {}
    /\ nDrafts = 0
    /\ earlierPicks = {}
    /\ client = ClientInit

NextLink ==
    \/ PageCreatesRoom
    \/ PageSocketOpens
    \/ PageSocketDrops
    \/ PageSocketClosed
    \/ PageReconnectTimerFires
    \/ PageHeartbeatTick
    \/ PageInitialPingFires
    \/ PageStartsDraft
    \/ \E team \in {"blue", "red", "spectator"} : PageSwitchesTeam(team)
    \/ PageClicksChampion
    \/ ServerReceives
    \/ PageReceives
    \/ \E roomCode \in codes : PeerJoinsRoom(roomCode)
    \/ PeerDraftAction
    \/ \E roomId \in codes : CleanupTimerFires(roomId)

\* connections, heartbeat and drafts, with no retry timer firing
SpecLink == InitLink /\ [][NextLink]_vars

\* the states the page is handed while its socket stays open, retry timers
\* firing
NextSync ==
    \/ PageCreatesRoom
    \/ \E roomCode \in codes : PageJoinsRoom(roomCode)
    \/ PeerCreatesRoom
    \/ PeerStartsDraft
    \/ PageSocketOpens
    \/ \E messageId \in 1..MaxLinkMessages : PageRetryTimerFires(messageId)
    \/ PageStartsDraft
    \/ \E team \in {"blue", "red", "spectator"} : PageSwitchesTeam(team)
    \/ PageClicksChampion
    \/ ServerReceives
    \/ PageReceives
    \/ \E roomCode \in codes : PeerJoinsRoom(roomCode)
    \/ PeerDraftAction

SpecSync == InitLink /\ [][NextSync]_vars

\* ------------------------------------------------------------------ claims
AllChampions(ds) == ds.blueBans \o ds.redBans \o ds.bluePicks \o ds.redPicks

NoRepeat(seq) == \A i, j \in 1..Len(seq) : i # j => seq[i] # seq[j]

\* the team DRAFT_ORDER[currentTurn] names, if there is such a step
TurnTeam(ds) == IF ds.currentTurn < Len(DRAFT_ORDER) THEN Step(ds.currentTurn).team ELSE Null

\* the handler answered the sender with one error message and nothing else
OnlyErrorTo(e, c) ==
    Len(e.out) = 1 /\ e.out[1].to = c /\ e.out[1].msg.type = "error"

\* the handler sent no error message
Accepted(e) == \A i \in 1..Len(e.out) : e.out[i].msg.type # "error"

\* connections that can send a message about a room of the fearless server
Senders == { c \in Conns : variant = "fearless" /\ IsOpen(c) /\ InRoom(c) }

\* C1: in every reachable state of either server, the concatenation of
\* blueBans, redBans, bluePicks and redPicks of a room holds no champion twice.
C1_NoDuplicateChampions ==
    \A r \in DOMAIN rooms : NoRepeat(AllChampions(rooms[r].draftState))

\* C1 witness: a draft of the captain server ran to its end and a client
\* can still name a champion that is in the lists
C1_Witness ==
    /\ variant = "captain"
    /\ \E r \in DOMAIN rooms :
          /\ Len(AllChampions(rooms[r].draftState)) = Len(DRAFT_ORDER)
          /\ \E c \in rooms[r].clients : IsOpen(c)

\* C2: a draft_action from a connection whose role is not the team of
\* DRAFT_ORDER[currentTurn] is answered with an error to that connection only
\* and leaves the registry (hence the DraftState) as it was.
C2_TurnLegality ==
    \A c \in Senders : \A champion \in ChampionInputs(c) :
        conn[c].currentTeam # TurnTeam(RoomOf(c).draftState)
            => LET e == OnDraftAction(c, champion)
               IN  OnlyErrorTo(e, c) /\ e.rooms = rooms

\* C2 witness: mid-draft, with picks made, a spectator and the team that is
\* not on turn are both connected to the room
C2_Witness ==
    \E c, d \in Senders :
        /\ conn[c].currentRoom = conn[d].currentRoom
        /\ RoomOf(c).draftState.phase = "drafting"
        /\ RoomOf(c).draftState.currentTurn >= 7
        /\ conn[c].currentTeam = "spectator"
        /\ conn[d].currentTeam \in {"blue", "red"}
        /\ conn[d].currentTeam # TurnTeam(RoomOf(d).draftState)

\* C3, state part: a draft_action the server accepts leaves currentTurn one
\* higher, one it rejects leaves currentTurn as it was
C3_ActionStep ==
    \A c \in Senders : \A champion \in ChampionInputs(c) :
        LET e == OnDraftAction(c, champion)
            r == conn[c].currentRoom
        IN  e.rooms[r].draftState.currentTurn =
                IF Accepted(e) THEN rooms[r].draftState.currentTurn + 1
                ELSE rooms[r].draftState.currentTurn

\* C3, step part: currentTurn of a room rises by one at a time and falls
\* only in a start_draft step, which sets it to 0
C3_TurnStep ==
    \A r \in (DOMAIN rooms) \cap (DOMAIN rooms') :
        LET before == rooms[r].draftState.currentTurn
            after == rooms'[r].draftState.currentTurn
        IN  /\ after > before => after = before + 1
            /\ after < before => after = 0 /\ \E c \in Conns : StartDraft(c)

\* C3: every accepted draft action increases currentTurn by exactly 1, every
\* rejected action leaves it unchanged, and currentTurn never decreases
\* except when start_draft replaces the DraftState.
C3_TurnMonotonicity == [](C3_ActionStep) /\ [][C3_TurnStep]_vars

\* C3 witness: a second draft, started over a first one, has moved on
C3_Witness ==
    /\ variant = "fearless"
    /\ nDrafts = 2
    /\ \E r \in DOMAIN rooms : rooms[r].draftState.currentTurn = 3

\* C4 as claimed: of the draft_action messages sent while their senders saw
\* the same currentTurn of the same draft, the server applies at most one.
C4_OneActionPerSeenTurn ==
    \A m, n \in applied :
        (m.seenDraft = n.seenDraft /\ m.seenTurn = n.seenTurn) => m = n

\* C5, state part: phase is complete exactly when currentTurn is 20
C5_CompleteIffAllTurns ==
    \A r \in DOMAIN rooms :
        rooms[r].draftState.phase = "complete"
            <=> rooms[r].draftState.currentTurn = Len(DRAFT_ORDER)

\* C5, step part: phase changes only idle -> drafting and complete ->
\* drafting in a start_draft step and drafting -> complete in a draft_action
\* step; an accepted start_draft always leaves the room drafting
C5_PhaseStep ==
    \A r \in (DOMAIN rooms) \cap (DOMAIN rooms') :
        LET before == rooms[r].draftState.phase
            after == rooms'[r].draftState.phase
        IN  /\ before # after =>
                \/ /\ before \in {"idle", "complete"}
                   /\ after = "drafting"
                   /\ \E c \in Conns : StartDraft(c)
                \/ /\ before = "drafting"
                   /\ after = "complete"
                   /\ rooms'[r].draftState.currentTurn = Len(DRAFT_ORDER)
                   /\ \E c \in Conns : \E champion \in ChampionInputs(c) :
                          DraftAction(c, champion)
            /\ \A c \in Conns :
                  (StartDraft(c) /\ StartDraftAccepted(c) /\ conn[c].currentRoom = r)
                      => after = "drafting"

\* C5: phase moves only idle -> drafting (start_draft), drafting -> complete
\* (exactly when currentTurn reaches 20) and complete/drafting -> drafting
\* (start_draft); no other message changes it; complete iff currentTurn = 20.
C5_PhaseMachine == [](C5_CompleteIffAllTurns) /\ [][C5_PhaseStep]_vars

\* C5 witness: a draft that was started over an earlier one is complete
C5_Witness ==
    /\ variant = "fearless"
    /\ nDrafts = 2
    /\ \E r \in DOMAIN rooms : rooms[r].draftState.phase = "complete"

\* C6: once 20 draft actions were accepted the phase is complete, each of the
\* four lists holds 5 champions, and every further draft_action is answered
\* 'Draft not in progress' and changes nothing.
C6_HappyPathCompletion ==
    \A r \in DOMAIN rooms :
        LET ds == rooms[r].draftState IN
        (variant = "fearless" /\ ds.currentTurn = Len(DRAFT_ORDER)) =>
            /\ ds.phase = "complete"
            /\ Len(ds.blueBans) = 5 /\ Len(ds.redBans) = 5
            /\ Len(ds.bluePicks) = 5 /\ Len(ds.redPicks) = 5
            /\ \A c \in Senders : \A champion \in ChampionInputs(c) :
                  conn[c].currentRoom = r =>
                      OnDraftAction(c, champion) = Rejected(c, "Draft not in progress")

\* C6 witness: a completed draft with both teams still connected
C6_Witness ==
    \E c, d \in Senders :
        /\ conn[c].currentTeam = "blue" /\ conn[d].currentTeam = "red"
        /\ conn[c].currentRoom = conn[d].currentRoom
        /\ RoomOf(c).draftState.currentTurn = Len(DRAFT_ORDER)

\* C7 as claimed: currentTeam and currentAction copy DRAFT_ORDER[currentTurn]
\* while drafting and are both null whenever phase is idle or complete.
C7_NullUnlessDrafting ==
    \A r \in DOMAIN rooms :
        LET ds == rooms[r].draftState IN
        /\ ds.phase = "drafting" =>
              /\ ds.currentTeam = Step(ds.currentTurn).team
              /\ ds.currentAction = Step(ds.currentTurn).action
        /\ ds.phase \in {"idle", "complete"} =>
              ds.currentTeam = Null /\ ds.currentAction = Null

\* C7 amended: currentTeam and currentAction copy DRAFT_ORDER[currentTurn]
\* while drafting, are both null when phase is complete, and are 'blue' and
\* 'ban' (the first step) when phase is idle.
C7_TeamAndActionFollowTurn ==
    \A r \in DOMAIN rooms :
        LET ds == rooms[r].draftState IN
        /\ ds.phase = "drafting" =>
              /\ ds.currentTeam = Step(ds.currentTurn).team
              /\ ds.currentAction = Step(ds.currentTurn).action
        /\ ds.phase = "complete" =>
              ds.currentTeam = Null /\ ds.currentAction = Null
        /\ ds.phase = "idle" =>
              ds.currentTeam = "blue" /\ ds.currentAction = "ban"

\* C7 witness: a draft is at a red pick, after blue and red bans and picks
C7_Witness ==
    \E r \in DOMAIN rooms :
        /\ variant = "fearless"
        /\ rooms[r].draftState.phase = "drafting"
        /\ rooms[r].draftState.currentTurn = 16

\* C8 as claimed: a start_draft from a connection that is not room.host is
\* answered with an error to that connection only and changes nothing.
C8_OnlyHostStarts ==
    \A c \in Senders :
        c # RoomOf(c).host =>
            LET e == OnStartDraft(c) IN OnlyErrorTo(e, c) /\ e.rooms = rooms

\* C9 as claimed: toggle_fearless and reset_fearless from a connection that
\* is not room.host yield an error to that connection only, no broadcast, and
\* leave fearlessDraftEnabled and fearlessUsedChampions unchanged.
C9_OnlyHostChangesSessionMode ==
    \A c \in Senders :
        c # RoomOf(c).host =>
            /\ \A enabled \in BOOLEAN :
                  LET e == OnToggleFearless(c, enabled)
                  IN  OnlyErrorTo(e, c) /\ e.rooms = rooms
            /\ LET e == OnResetFearless(c)
               IN  OnlyErrorTo(e, c) /\ e.rooms = rooms

\* C10 as claimed: when the room creator switches team it is still reported
\* isHost = true, and afterwards its start_draft, toggle_fearless and
\* reset_fearless requests are still accepted.
C10_HostKeptAcrossSwitch ==
    [][ \A c \in Conns, newTeam \in {"blue", "red", "spectator"} :
          ( /\ variant = "fearless" /\ IsOpen(c) /\ InRoom(c)
            /\ c = RoomOf(c).host
            /\ Accepted(OnSwitchTeam(c, newTeam))
            /\ SwitchTeam(c, newTeam) )
          => /\ OnSwitchTeam(c, newTeam).out[1].msg.isHost
             /\ Accepted(OnStartDraft(c))'
             /\ Accepted(OnToggleFearless(c, TRUE))'
             /\ Accepted(OnResetFearless(c))' ]_vars

\* the step DRAFT_ORDER[currentTurn] of a running draft is a pick
PickStep(ds) ==
    /\ ds.phase = "drafting"
    /\ ds.currentTurn < Len(DRAFT_ORDER)
    /\ Step(ds.currentTurn).action = "pick"

Picks(ds) == Range(ds.bluePicks) \cup Range(ds.redPicks)

\* C11 as claimed: while fearlessDraftEnabled is true, a champion picked in
\* an earlier draft of the room since the last reset_fearless is never
\* accepted as a pick.
C11_EarlierPicksRefused ==
    \A c \in Senders : \A champion \in earlierPicks :
        (RoomOf(c).fearlessDraftEnabled /\ PickStep(RoomOf(c).draftState))
            => ~Accepted(OnDraftAction(c, champion))

\* C11, state part: while the mode is on, a pick of a champion of the
\* canonical set is refused and changes nothing
C11_SetRefused ==
    \A c \in Senders : \A champion \in Range(RoomOf(c).fearlessUsedChampions) :
        (RoomOf(c).fearlessDraftEnabled /\ PickStep(RoomOf(c).draftState))
            => LET e == OnDraftAction(c, champion)
               IN  OnlyErrorTo(e, c) /\ e.rooms = rooms

\* C11, step part: a pick accepted while the mode is on is in the canonical
\* set afterwards, one accepted while it is off leaves the set alone, and the
\* set loses champions only in a reset_fearless step
C11_SetGrows ==
    \A r \in (DOMAIN rooms) \cap (DOMAIN rooms') :
        LET new == Picks(rooms'[r].draftState) \ Picks(rooms[r].draftState)
            set == Range(rooms[r].fearlessUsedChampions)
            after == Range(rooms'[r].fearlessUsedChampions)
        IN  \/ after = (IF rooms[r].fearlessDraftEnabled THEN set \cup new ELSE set)
            \/ /\ after = {}
               /\ \E c \in Senders : Accepted(OnResetFearless(c))
                                     /\ rooms' = OnResetFearless(c).rooms

\* C11 amended: while fearlessDraftEnabled is true, no champion of the
\* canonical fearlessUsedChampions set is accepted as a pick; the set holds
\* exactly the champions picked while the mode was on since the last
\* reset_fearless (a pick made while the mode was off is not recorded).
C11_SessionSetDisjoint == [](C11_SetRefused) /\ [][C11_SetGrows]_vars

\* C11 witness: in a later draft, with the mode on, a pick is due and the
\* canonical set holds a champion that is in none of the lists
C11_Witness ==
    \E r \in DOMAIN rooms :
        /\ nDrafts = 2
        /\ rooms[r].fearlessDraftEnabled
        /\ PickStep(rooms[r].draftState)
        /\ \E champion \in Range(rooms[r].fearlessUsedChampions) :
              ~Includes(AllChampions(rooms[r].draftState), champion)

\* C12 as claimed: whenever fearlessDraftEnabled is true the transmitted
\* snapshot holds exactly the champions of the canonical set.
C12_SnapshotMirrorsSet ==
    \A r \in DOMAIN rooms :
        rooms[r].fearlessDraftEnabled
            => Range(rooms[r].draftState.fearlessUsedChampions)
                   = Range(rooms[r].fearlessUsedChampions)

\* C13 as claimed: a ban, or any action while fearlessDraftEnabled is false,
\* by the team on turn is accepted for every champion that is in none of the
\* four lists of the draft.
C13_SetBlocksOnlyEnabledPicks ==
    \A c \in Senders : \A champion \in ChampionInputs(c) :
        LET room == RoomOf(c) IN
        ( /\ room.draftState.phase = "drafting"
          /\ conn[c].currentTeam = TurnTeam(room.draftState)
          /\ ~Includes(AllChampions(room.draftState), champion)
          /\ ~PickStep(room.draftState) \/ ~room.fearlessDraftEnabled )
            => Accepted(OnDraftAction(c, champion))

RolesIn(rs, c) ==
    { <<r, "blue">> : r \in { x \in DOMAIN rs : rs[x].bluePlayer = c } }
    \cup { <<r, "red">> : r \in { x \in DOMAIN rs : rs[x].redPlayer = c } }
    \cup UNION { { <<r, "spectator", i>> :
                      i \in { k \in 1..Len(rs[r].spectators) : rs[r].spectators[k].ws = c } }
                 : r \in DOMAIN rs }

\* what a room records of who is in it
Roster(room) ==
    <<room.bluePlayer, room.redPlayer, room.bluePlayerName, room.redPlayerName,
      room.spectators>>

\* C15 as claimed: every connection occupies at most one role in at most one
\* room (a room's blue and red slots hold one connection each by
\* construction).
C15_OneRolePerConnection ==
    variant = "fearless" => \A c \in Conns : Cardinality(RolesIn(rooms, c)) <= 1

\* C16 as claimed: when a connection closes, no slot or spectator entry
\* references it afterwards, every other open participant of its room is
\* sent player_disconnected with the updated roster, and the cleanup timer of
\* the room is armed if no occupant is left.
C16_Detach ==
    \A c \in Senders :
        LET e == OnClose(c)
            r == conn[c].currentRoom
            room == e.rooms[r]
            others == { d \in Conns \ {c} :
                          IsOpen(d) /\ (room.bluePlayer = d \/ room.redPlayer = d
                                        \/ \E i \in 1..Len(room.spectators) :
                                               room.spectators[i].ws = d) }
        IN  /\ RolesIn(e.rooms, c) = {}
            /\ \A d \in others : \E i \in 1..Len(e.out) :
                  /\ e.out[i].to = d
                  /\ e.out[i].msg.type = "player_disconnected"
                  /\ e.out[i].msg.bluePlayerName = room.bluePlayerName
                  /\ e.out[i].msg.redPlayerName = room.redPlayerName
                  /\ e.out[i].msg.spectators = SpectatorNames(room)
            /\ RoomEmpty(room) => r \in e.timers

\* C17, state part: switch_team while the room is drafting is answered with
\* an error to the requester and changes nothing
C17_SwitchRefused ==
    \A c \in Senders : \A newTeam \in {"blue", "red", "spectator"} :
        RoomOf(c).draftState.phase = "drafting"
            => LET e == OnSwitchTeam(c, newTeam)
               IN  OnlyErrorTo(e, c) /\ e.rooms = rooms /\ e.conn = conn

\* C17, step part: the roster of a room that is drafting changes only in a
\* close or a join_room step
C17_RosterStep ==
    \A r \in (DOMAIN rooms) \cap (DOMAIN rooms') :
        (rooms[r].draftState.phase = "drafting" /\ Roster(rooms'[r]) # Roster(rooms[r]))
            => \/ \E c \in Conns : CloseFearless(c)
               \/ \E c \in Conns : JoinRoom(c, r)

\* C17: switch_team during an active draft is rejected with an error to the
\* requester and changes no slot, name or spectator entry; while phase is
\* drafting the roster changes only through disconnects and joins.
C17_NoSwitchWhileDrafting == [](C17_SwitchRefused) /\ [][C17_RosterStep]_vars

\* C17 witness: a draft is under way and a team slot is free for the
\* connection that would switch
C17_Witness ==
    \E c \in Senders :
        /\ RoomOf(c).draftState.phase = "drafting"
        /\ RoomOf(c).draftState.currentTurn >= 1
        /\ conn[c].currentTeam = "spectator"
        /\ RoomOf(c).redPlayer = NoConn \/ RoomOf(c).bluePlayer = NoConn

\* C18 as claimed: outside a draft, a switch to a team slot held by another
\* connection changes nothing; any other switch leaves the requester with
\* exactly the target role and every other connection's roles as they were.
C18_SwitchMovesOneRole ==
    \A c \in Senders : \A newTeam \in {"blue", "red", "spectator"} :
        LET e == OnSwitchTeam(c, newTeam)
            room == RoomOf(c)
            held == IF newTeam = "blue" THEN room.bluePlayer
                    ELSE IF newTeam = "red" THEN room.redPlayer ELSE NoConn
        IN  room.draftState.phase # "drafting" =>
                IF held # NoConn /\ held # c
                THEN OnlyErrorTo(e, c) /\ e.rooms = rooms /\ e.conn = conn
                ELSE /\ \A role \in RolesIn(e.rooms, c) :
                            role[1] = room.id /\ role[2] = newTeam
                     /\ Cardinality(RolesIn(e.rooms, c)) = 1
                     /\ e.conn[c].currentTeam = newTeam
                     /\ \A d \in Conns \ {c} :
                            RolesIn(e.rooms, d) = RolesIn(rooms, d) /\ e.conn[d] = conn[d]

\* the effects of the requests an open connection can send
RequestEffects(c) ==
    { OnJoinRoom(c, roomCode) : roomCode \in codes \cup {NoRoom} }
    \cup { OnStartDraft(c), OnResetFearless(c) }
    \cup { OnDraftAction(c, champion) : champion \in ChampionInputs(c) }
    \cup { OnToggleFearless(c, enabled) : enabled \in BOOLEAN }
    \cup { OnSwitchTeam(c, newTeam) : newTeam \in {"blue", "red", "spectator", "top"} }

\* C19: a request the server rejects leaves rooms, closures and timers as
\* they were, sends exactly one error message to the requester and sends
\* nothing to any other connection.
C19_FailureIsolation ==
    \A c \in Conns : (variant = "fearless" /\ IsOpen(c)) =>
        \A e \in RequestEffects(c) :
            ~Accepted(e) =>
                /\ OnlyErrorTo(e, c)
                /\ e.rooms = rooms /\ e.conn = conn /\ e.timers = roomCleanupTimers

\* C19 witness: mid-draft, with another participant listening, the red
\* player can be refused for its turn, its role, its champion and its switch
C19_Witness ==
    \E c, d \in Senders :
        /\ c # d /\ conn[c].currentRoom = conn[d].currentRoom
        /\ conn[c].currentTeam = "red"
        /\ RoomOf(c).draftState.phase = "drafting"
        /\ ~Accepted(OnStartDraft(c))
        /\ ~Accepted(OnSwitchTeam(c, "spectator"))
        /\ \E champion \in ChampionInputs(c) : ~Accepted(OnDraftAction(c, champion))

\* C20: a room leaves the registry only when its cleanup timer fires, and
\* only if at that moment it has no blue player, no red player and no
\* spectators (no client, on the captain server); a room that has an
\* occupant when a timer armed earlier fires stays.
C20_CleanupSafety ==
    [][ \A r \in (DOMAIN rooms) \ (DOMAIN rooms') :
          /\ r \in roomCleanupTimers
          /\ r \notin roomCleanupTimers'
          /\ IF variant = "fearless"
             THEN /\ rooms[r].bluePlayer = NoConn
                  /\ rooms[r].redPlayer = NoConn
                  /\ rooms[r].spectators = << >>
                  /\ CleanupTimerFires(r)
             ELSE /\ rooms[r].clients = {}
                  /\ r # defaultRoomId
                  /\ CleanupTimerFiresCaptain(r) ]_vars

\* C20 witness: a cleanup timer, armed when the room was empty, is pending
\* for a room that has since gained a client
C20_Witness ==
    /\ variant = "captain"
    /\ \E r \in roomCleanupTimers : r \in DOMAIN rooms /\ rooms[r].clients # {}

\* a registered room other than the captain server's default room to which
\* no open connection is attached
Unattended(r) ==
    /\ r \in DOMAIN rooms
    /\ IF variant = "fearless"
       THEN \A c \in Conns : ~(IsOpen(c) /\ conn[c].currentRoom = r)
       ELSE /\ r # defaultRoomId
            /\ \A c \in rooms[r].clients : ~IsOpen(c)

\* C21: a non-default room to which no live connection is attached does not
\* stay in the registry for ever: it is eventually removed (or attached to
\* again), whatever events left it unoccupied.
C21_CleanupLiveness ==
    \A r \in CleanupRooms : Unattended(r) ~> ~Unattended(r)

\* the open connections attached to room r: those whose closure names the
\* room (fearless server), the room's clients (captain server)
AttachedTo(r) ==
    IF variant = "fearless"
    THEN { c \in Conns : IsOpen(c) /\ conn[c].currentRoom = r }
    ELSE { c \in rooms[r].clients : IsOpen(c) }

\* C22: no cleanup timer is pending for a room that has an attached
\* connection, because every attach (create_room, join_room, connecting
\* with a roomId, connect_to_room) cancels the room's timer.
C22_NoTimerWhileAttached ==
    \A r \in roomCleanupTimers : r \in DOMAIN rooms => AttachedTo(r) = {}

\* messageId is in pendingMessages
Pending(cl, messageId) == \E x \in cl.pendingMessages : x.messageId = messageId

\* C26 (state part): on one socket a critical message goes out at most
\* 1 + maxMessageRetries = 4 times, and a message whose ack arrived is not
\* in the pending table.
C26_TransmissionBound ==
    /\ \A id \in DOMAIN client.transmissions :
          client.transmissions[id] <= 1 + maxMessageRetries
    /\ 1 + maxMessageRetries = 4
    /\ \A x \in client.pendingMessages : x.type \in criticalMessages

\* C26 (step part): the ack of a pending message takes it out of the
\* pending table; a message whose ack arrived is never handed to ws.send
\* again; and a message that leaves the pending table while the socket
\* stays open, without an ack, leaves it with the failure notice.
C26_AckStep ==
    /\ \A id \in 1..MaxMessages :
          (ReceiveAck(id) /\ Pending(client, id))
             => (id \in client'.acked /\ ~Pending(client', id))
    /\ \A id \in client.acked :
          /\ \A i \in 1..Len(client'.sent) : client'.sent[i].messageId # id
          /\ ~Pending(client', id)
    /\ \A id \in 1..MaxMessages :
          (/\ Pending(client, id) /\ ~Pending(client', id)
           /\ SocketOpen(client) /\ SocketOpen(client')
           /\ id \notin client'.acked)
             => /\ Get0(client.messageRetryAttempts, id) = maxMessageRetries
                /\ [text |-> "Failed to send. Please try again.", messageId |-> id]
                      \in client'.notifications

\* C26: while the socket stays open a critical message is transmitted at
\* most four times; its ack removes it from the pending table for good; and
\* with no ack it eventually leaves the pending table, with the failure
\* notice if the socket stayed open.
C26_AckRetryBound ==
    /\ [](C26_TransmissionBound)
    /\ [][C26_AckStep]_vars
    /\ \A id \in 1..MaxMessages :
          Pending(client, id) ~> ~Pending(client, id)

\* C26 witness: a message went out four times on one socket, no ack came,
\* and it has left the pending table with the failure notice
C26_Witness ==
    \E id \in DOMAIN client.transmissions :
        /\ client.transmissions[id] = 1 + maxMessageRetries
        /\ SocketOpen(client)
        /\ ~Pending(client, id)
        /\ id \notin client.acked
        /\ [text |-> "Failed to send. Please try again.", messageId |-> id]
              \in client.notifications

\* the page is in a room, in multiplayer mode, and its socket has closed
Lost ==
    /\ client.isMultiplayerMode
    /\ client.currentRoomCode # NoRoom
    /\ client.ws # NoConn /\ client.readyState = "closed"

\* the notice shown when the reconnect attempts are used up
TerminalNotice ==
    [text |-> "Connection lost. Please refresh the page.", messageId |-> 0]

\* C27: after an unexpected close in multiplayer mode the page keeps
\* trying: it ends up connected again, or shows the terminal notice after
\* maxReconnectAttempts failed attempts (or the user leaves); it never
\* stops silently.
C27_ReconnectRecovery ==
    Lost ~> \/ client.connectionState = "connected"
            \/ TerminalNotice \in client.notifications
            \/ ~client.isMultiplayerMode

\* the delays of the first to the tenth consecutive attempt, in milliseconds:
\* 1 s, 2 s, 4 s, 8 s, 16 s, then 30 s
ClaimedDelays ==
    << 1000, 2000, 4000, 8000, 16000, 30000, 30000, 30000, 30000, 30000 >>

\* C28 (state part): the delay computed for the n-th consecutive attempt
\* is min(1000 * 2^(n-1), 30000) ms; reconnectAttempts never exceeds
\* maxReconnectAttempts; and a pending reconnect timer was armed with the
\* delay of the current attempt.
C28_DelayOfAttempt ==
    /\ Len(ClaimedDelays) = maxReconnectAttempts
    /\ \A n \in 1..maxReconnectAttempts : ReconnectDelay(n) = ClaimedDelays[n]
    /\ client.reconnectAttempts \in 0..maxReconnectAttempts
    /\ client.reconnectTimeout # 0 =>
          /\ client.reconnectAttempts >= 1
          /\ client.reconnectTimeout = ClaimedDelays[client.reconnectAttempts]

\* C28 (step part): every successful open resets reconnectAttempts to 0,
\* and a close that schedules an attempt counts it.
C28_OpenResets ==
    /\ (client.readyState # "open" /\ client'.readyState = "open")
          => client'.reconnectAttempts = 0
    /\ (client.reconnectTimeout = 0 /\ client'.reconnectTimeout # 0)
          => client'.reconnectAttempts = client.reconnectAttempts + 1

HoldsNoSocket(cl) == cl.ws = NoConn

\* C29 (state part): after leaveRoom the outbound queue and the pending-ack
\* tables are empty, whatever timers are still pending.
C29_TablesEmpty ==
    HoldsNoSocket(client) =>
        /\ client.messageQueue = << >>
        /\ client.pendingMessages = {}
        /\ client.messageRetryAttempts = << >>
        /\ ~client.isMultiplayerMode

\* C29 (step part): leaveRoom itself sends nothing, and whatever callback
\* runs after it (a retry timer, a ping timer, the close event of the
\* socket it closed) sends nothing, opens no socket and schedules no
\* reconnect attempt, until the user creates or joins a room again.
C29_NothingAfterLeave ==
    /\ UserLeaveRoom => (HoldsNoSocket(client') /\ client'.sent = << >>)
    /\ (HoldsNoSocket(client) /\ ~UserCreateRoom
          /\ ~(\E roomCode \in codes : UserJoinRoom(roomCode)))
          => /\ HoldsNoSocket(client')
             /\ client'.sent = << >>
             /\ client'.reconnectTimeout = 0
             /\ client'.awaiting = << >>

\* C29: after leaveRoom returns the page makes no reconnect attempt, sends
\* no queued or pending-retry message, and its queue and pending tables are
\* empty, whichever timers were pending.
C29_LeaveCancelsEverything == [](C29_TablesEmpty) /\ [][C29_NothingAfterLeave]_vars

\* C29 witness: leaveRoom has returned while a retry timer, the ping timer
\* and the close event of the socket were still to come
C29_Witness ==
    /\ HoldsNoSocket(client)
    /\ client.retryTimers # {}
    /\ client.pingTimer
    /\ client.orphan

\* ------------------------------------------------------------------ C25
\* the reply the server's handler sends to the page for its i-th travelling
\* message is a pong with that message's timestamp
AnsweredByPong(i) ==
    LET ping == client.wire[i]
        out == OnMessage(client.ws, ping, NoRoom).out
    IN  \E k \in 1..Len(out) :
            /\ out[k].to = client.ws
            /\ out[k].msg.type = "pong"
            /\ out[k].msg.timestamp = ping.timestamp

\* the page called ws.close() on its open socket, which in this
\* specification only the heartbeat callback does (js/multiplayer.js:1058-1062)
ClosedByHeartbeat == client.ws # NoConn /\ client.readyState = "closing"

\* C25: every ping of the page that reaches the server over an open
\* connection is answered with a pong that carries the ping's timestamp, and
\* the page, whose server handles every message it is sent, never closes its
\* socket for missed heartbeats
C25_HeartbeatResponse ==
    /\ \A i \in 1..Len(client.wire) :
          client.wire[i].type = "ping" /\ IsOpen(client.ws) => AnsweredByPong(i)
    /\ ~ClosedByHeartbeat

\* ------------------------------------------------------------------ C23
\* the message reconnectToRoom() sent on the page's new socket is the next
\* one the server handles, and the room it names is still in the registry
RejoinArrives ==
    /\ client.wire # << >>
    /\ IsOpen(client.ws)
    /\ Head(client.wire).type = "rejoin_room"
    /\ Head(client.wire).roomCode \in DOMAIN rooms

\* the handler's output holds a message to connection c that carries the
\* draft state ds
RepliesWithState(out, c, ds) ==
    \E k \in 1..Len(out) :
        /\ out[k].to = c
        /\ "draftState" \in DOMAIN out[k].msg
        /\ out[k].msg.draftState = ds

\* C23: when the page that held the blue slot of a room with a draft under
\* way comes back on a new socket before the room is deleted, the server's
\* handling of its reconnect message puts the new connection into the blue
\* slot of that room, answers it with the room's draft state (the same
\* currentTurn, the same ban and pick lists), and leaves no cleanup timer
\* armed for the room
C23_ReconnectRestoresBlue ==
    ( /\ RejoinArrives
      /\ Head(client.wire).team = "blue"
      /\ rooms[Head(client.wire).roomCode].draftState.phase = "drafting" )
    => LET c == client.ws
           roomCode == Head(client.wire).roomCode
           e == OnMessage(c, Head(client.wire), NoRoom)
       IN  /\ e.rooms[roomCode].bluePlayer = c
           /\ e.conn[c].currentRoom = roomCode
           /\ e.conn[c].currentTeam = "blue"
           /\ RepliesWithState(e.out, c, rooms[roomCode].draftState)
           /\ roomCode \notin e.timers

\* ------------------------------------------------------------------ C24
\* js/multiplayer.js:235-248  the message the file's older reconnectToRoom()
\* sends for the room and role the page holds
reconnectRequest(cl) ==
    [Msg(IF cl.currentTeam = "blue" THEN "create_room" ELSE "join_room")
        EXCEPT !.roomCode = cl.currentRoomCode]

\* connection c holds the slot of the role in the room
HoldsRole(room, c, team) ==
    CASE team = "blue" -> room.bluePlayer = c
      [] team = "red" -> room.redPlayer = c
      [] OTHER -> \E i \in 1..Len(room.spectators) : room.spectators[i].ws = c

\* C24: each time the page comes back to its room in the role it held, with
\* either reconnect message of js/multiplayer.js, the server's handler answers
\* the page with the room's draft state as it stands (what the last
\* draft_update carried), leaves that draft state as it was, and has the
\* connection in the slot of its role
C24_RejoinIsIdempotentSync ==
    RejoinArrives =>
        \A data \in {Head(client.wire), reconnectRequest(client)} :
            LET c == client.ws
                roomCode == client.currentRoomCode
                e == OnMessage(c, data, GeneratedCode)
            IN  /\ RepliesWithState(e.out, c, rooms[roomCode].draftState)
                /\ e.rooms[roomCode].draftState = rooms[roomCode].draftState
                /\ HoldsRole(e.rooms[roomCode], c, client.currentTeam)

\* ------------------------------------------------------------------ C30
\* the message types whose draft state the page hands to the draft callback
DeliveredTypes ==
    {"room_created", "room_joined", "team_switched", "draft_started", "draft_update"}

\* ws.onmessage runs for a message that carries a draft state
Delivers == PageReceives /\ Head(client.inbox).type \in DeliveredTypes

\* the message reports more bans and picks than the state the page knows
MoreActions(data) ==
    /\ client.lastKnownDraftState # << >>
    /\ TotalActions(data.draftState) > TotalActions(client.lastKnownDraftState[1])

\* the callback is called once, with the message's draft state
DeliveredOnce(data) ==
    /\ Len(client'.delivered) = 1
    /\ client'.delivered[1].type = data.type
    /\ client'.delivered[1].draftState = data.draftState
    /\ client'.lastKnownDraftState = << data.draftState >>

\* an action the server applies to the room the page's open connection is in
\* is sent to the page as a draft_update that carries the new state, once
\* for every slot of the room that holds the connection
C30_ActionReachesPage ==
    [][ \A r \in DOMAIN rooms :
          ( /\ r \in DOMAIN rooms'
            /\ IsOpen(client.ws) /\ conn[client.ws].currentRoom = r
            /\ TotalActions(rooms'[r].draftState) > TotalActions(rooms[r].draftState) )
          => /\ Len(client'.inbox) > Len(client.inbox)
             /\ \A i \in (Len(client.inbox) + 1)..Len(client'.inbox) :
                   /\ client'.inbox[i].type = "draft_update"
                   /\ client'.inbox[i].draftState = rooms'[r].draftState
             /\ TotalActions(rooms'[r].draftState) = TotalActions(rooms[r].draftState) + 1
      ]_vars

\* a draft_update is handed on as a sync exactly when it repeats the state
\* the page knows already: each applied action is shown live once
C30_LiveOncePerAction ==
    [][ Delivers /\ Head(client.inbox).type = "draft_update"
          => (client'.delivered[1].isSync
                <=> client.lastKnownDraftState = << Head(client.inbox).draftState >>) ]_vars

\* C30 as stated: a state is handed to the draft callback as a live update
\* when it is a draft_update with more bans and picks than the last known
\* state, and as a sync in every other case; each applied action reaches the
\* page as a draft_update and is shown live once
C30_SyncVersusLive ==
    /\ [][ Delivers =>
             LET data == Head(client.inbox)
             IN  /\ DeliveredOnce(data)
                 /\ client'.delivered[1].isSync =
                        ~(data.type = "draft_update" /\ MoreActions(data)) ]_vars
    /\ C30_ActionReachesPage
    /\ C30_LiveOncePerAction

\* ------------------------------------------------------------------ C31
\* the display names on the team of the draft state's current step
TurnPlayers(ds) ==
    IF Step(ds.currentTurn).team = "blue" THEN ds.bluePlayers ELSE ds.redPlayers

\* the captain of the team of the draft state's current step
TurnCaptain(ds) ==
    IF Step(ds.currentTurn).team = "blue" THEN ds.blueCaptain ELSE ds.redCaptain

\* the request comes from a player who may not act at the current step: one
\* who is not on the step's team, or at a ban step one who is not its captain
\* (nobody being the captain of a team without one)
MayNotAct(ds, playerName) ==
    \/ ~Includes(TurnPlayers(ds), playerName)
    \/ /\ Step(ds.currentTurn).action = "ban"
       /\ (TurnCaptain(ds) = NoName \/ playerName # TurnCaptain(ds))

\* C31: on the captain server, during a draft, a ban or pick request of a
\* player who is not on the team whose turn it is, or a ban request of anyone
\* but that team's captain, changes no room and is answered to the sender
\* alone, whatever the step's action
C31_TurnLegalityCaptain ==
    variant = "captain" =>
    \A c \in Clients : Attached(c) =>
        LET ds == RoomOfClient(c).draftState IN
        (ds.phase = "drafting" /\ ds.currentTurn < Len(DRAFT_ORDER)) =>
            \A type \in {"ban", "pick"}, playerName \in Players \cup {NoName} :
                \A champion \in ChampionInputsCaptain(c) :
                    MayNotAct(ds, playerName) =>
                        LET e == OnBanPick(c, type, champion, playerName)
                        IN  /\ e.rooms = rooms
                            /\ \A k \in 1..Len(e.out) : e.out[k].to = c

\* ------------------------------------------------------------------ C32
\* C32: on the captain server, in a room that has a host, a start_draft or
\* begin_draft request, a set_bravery_mode request and a
\* reset_bravery_session request that carry the name of a player who is not
\* the host change no room and are answered to the sender alone
C32_HostAuthorityCaptain ==
    variant = "captain" =>
    \A c \in Clients : Attached(c) =>
        LET hostName == RoomOfClient(c).draftState.hostName IN
        \A playerName \in Players :
            (hostName # NoName /\ playerName # hostName) =>
                \A e \in {OnStartDraftCaptain(c), OnResetBraverySession(c, playerName)}
                         \cup {OnSetBraveryMode(c, playerName, enabled) : enabled \in BOOLEAN} :
                    /\ e.rooms = rooms
                    /\ \A k \in 1..Len(e.out) : e.out[k].to = c

\* ------------------------------------------------------------------ C33
\* the request is accepted: the handler applies the champion to the draft
Applied(c, e) ==
    e.rooms[getRoomFromClient(c)].draftState.currentTurn
        = RoomOfClient(c).draftState.currentTurn + 1

\* C33: on the captain server, while isBraveryMode is true and the draft is
\* at a pick step, a ban or pick request that is accepted leaves its champion
\* in the room's braveryModeUsedChampions, and a request for a champion that
\* is in that set already is not accepted, whichever of the two message
\* types it carries
C33_BraverySession ==
    variant = "captain" =>
    \A c \in Clients : Attached(c) =>
        LET room == RoomOfClient(c)
            ds == room.draftState
        IN  ( /\ room.isBraveryMode
              /\ ds.phase = "drafting"
              /\ ds.currentTurn < Len(DRAFT_ORDER)
              /\ Step(ds.currentTurn).action = "pick" ) =>
            \A type \in {"ban", "pick"}, playerName \in Players :
                \A champion \in ChampionInputsCaptain(c) :
                    LET e == OnBanPick(c, type, champion, playerName)
                    IN  /\ Applied(c, e) =>
                            Includes(e.rooms[room.id].braveryModeUsedChampions, champion)
                        /\ Includes(room.braveryModeUsedChampions, champion) =>
                            ~Applied(c, e)

\* ------------------------------------------------------------------ C34
\* the handler refuses the request with the given error text
RefusedWith(e, c, text) ==
    \E k \in 1..Len(e.out) :
        /\ e.out[k].to = c
        /\ e.out[k].msg.type = "error"
        /\ e.out[k].msg.message = text

\* C34: on the captain server, a join_team request that is refused with
\* 'This team already has a captain.' changes no room (players, captains and
\* host name stay as they were) and sends nothing but that error to the sender
C34_RefusedJoinKeepsState ==
    variant = "captain" =>
    \A c \in Clients : Attached(c) =>
        \A targetTeam \in {"blue", "red"}, playerName \in Players, isCaptain \in BOOLEAN :
            LET e == OnJoinTeam(c, targetTeam, playerName, isCaptain)
            IN  RefusedWith(e, c, "This team already has a captain.") =>
                    /\ e.rooms = rooms
                    /\ Len(e.out) = 1

\* ------------------------------------------------------------------ C35
\* C35: in every room of either server, currentTurn is the number of
\* champions in the four ban and pick lists, and it lies between 0 and the
\* length of DRAFT_ORDER
C35_TurnCountsEntries ==
    \A r \in DOMAIN rooms :
        LET ds == rooms[r].draftState
        IN  /\ ds.currentTurn = TotalActions(ds)
            /\ 0 <= ds.currentTurn
            /\ ds.currentTurn <= Len(DRAFT_ORDER)

\* C35 witness: a draft has run to its end on the fearless server, after an
\* earlier start, with both teams' lists full
C35_Witness ==
    /\ variant = "fearless"
    /\ \E r \in DOMAIN rooms :
          LET ds == rooms[r].draftState
          IN  /\ ds.phase = "complete"
              /\ ds.currentTurn = Len(DRAFT_ORDER)
              /\ Len(ds.blueBans) = 5 /\ Len(ds.redPicks) = 5

\* the server is about to receive a message of the page it has received
\* before: the copy a retry timer transmitted again with the same messageId
DuplicateDelivery ==
    /\ ServerReceives
    /\ Head(client.wire).messageId # 0
    /\ Get0(client.transmissions, Head(client.wire).messageId) >= 2

\* C36: a message the server receives a second time under the same messageId
\* leaves every room as the first delivery left it
C36_DuplicateDeliveryHarmless ==
    [][DuplicateDelivery => rooms' = rooms]_vars

\* C36, start_draft: a start_draft received again never takes applied
\* actions out of a draft
C36_StartDraftKeepsApplied ==
    [][(DuplicateDelivery /\ Head(client.wire).type = "start_draft")
          => \A r \in DOMAIN rooms :
                 r \in DOMAIN rooms'
                 /\ TotalActions(rooms'[r].draftState)
                        >= TotalActions(rooms[r].draftState)]_vars

\* C36, create_room: a create_room received again creates no room
C36_CreateRoomOnce ==
    [][(DuplicateDelivery /\ Head(client.wire).type = "create_room")
          => DOMAIN rooms' \subseteq DOMAIN rooms]_vars

\* the socket of a reconnect opens: connectWebSocket() was called by
\* reconnectToRoom, whose continuation sends rejoin_room
ReconnectOpens ==
    /\ PageSocketOpens
    /\ client.awaiting # << >>
    /\ client.awaiting[1].type = "rejoin_room"

\* C37: when the socket of a reconnect opens, every draft_action and
\* start_draft the page hands to the socket comes after its rejoin_room
C37_RejoinBeforeQueue ==
    [][ReconnectOpens =>
          \A i \in 1..Len(client'.wire) :
              client'.wire[i].type \in {"draft_action", "start_draft"}
                  => \E j \in 1..(i - 1) : client'.wire[j].type = "rejoin_room"]_vars

\* C37, at the server: a draft_action or start_draft of the page is received
\* on a connection that is bound to a room
C37_ReceivedOnBoundConnection ==
    [][(ServerReceives /\ Head(client.wire).type \in {"draft_action", "start_draft"})
          => conn[client.ws].currentRoom # NoRoom]_vars

\* ------------------------------------------------- the page's solo draft
\* js/ui.js:329-340  (js/draft.js:613-624 is the same table)
draftOrder ==
    << [action |-> "ban", team |-> "blue"],  [action |-> "ban", team |-> "red"],
       [action |-> "ban", team |-> "blue"],  [action |-> "ban", team |-> "red"],
       [action |-> "ban", team |-> "blue"],  [action |-> "ban", team |-> "red"],
       [action |-> "pick", team |-> "blue"], [action |-> "pick", team |-> "red"],
       [action |-> "pick", team |-> "red"],  [action |-> "pick", team |-> "blue"],
       [action |-> "pick", team |-> "blue"], [action |-> "pick", team |-> "red"],
       [action |-> "ban", team |-> "red"],   [action |-> "ban", team |-> "blue"],
       [action |-> "ban", team |-> "red"],   [action |-> "ban", team |-> "blue"],
       [action |-> "pick", team |-> "red"],  [action |-> "pick", team |-> "blue"],
       [action |-> "pick", team |-> "blue"], [action |-> "pick", team |-> "red"] >>

\* js/ui.js:328-362  advanceDraft()
advanceDraft(gs) ==
    LET totalActions == TotalActions(gs)
    IN  IF totalActions < Len(draftOrder)
        THEN [gs EXCEPT !.currentAction = draftOrder[totalActions + 1].action,
                        !.currentTeam = draftOrder[totalActions + 1].team]
        ELSE [gs EXCEPT !.phase = "complete", !.currentAction = Null,
                        !.currentTeam = Null]

\* js/ui.js:751-759, 839-844  initializeDraft('solo')
initializeDraft(cl) ==
    [cl EXCEPT !.gameState =
        advanceDraft([ phase |-> "drafting", currentTeam |-> "blue",
                       currentAction |-> "ban",
                       blueBans |-> << >>, redBans |-> << >>,
                       bluePicks |-> << >>, redPicks |-> << >> ])]

\* js/ui.js:283  the champion is in one of the four lists
isUnavailable(gs, championName) ==
    \/ Includes(gs.blueBans, championName) \/ Includes(gs.redBans, championName)
    \/ Includes(gs.bluePicks, championName) \/ Includes(gs.redPicks, championName)

\* js/ui.js:258-323  handleChampionClick(championName) with draftMode 'solo'
handleChampionClick(cl, championName) ==
    LET gs == cl.gameState
    IN  IF gs.phase # "drafting" THEN cl
        ELSE IF isUnavailable(gs, championName) THEN cl
        ELSE IF cl.fearlessDraftEnabled /\ championName \in cl.fearlessUsedChampions
        THEN cl
        ELSE LET pushed ==
                     IF gs.currentAction = "ban"
                     THEN IF gs.currentTeam = "blue"
                          THEN [gs EXCEPT !.blueBans = Append(@, championName)]
                          ELSE [gs EXCEPT !.redBans = Append(@, championName)]
                     ELSE IF gs.currentAction = "pick"
                     THEN IF gs.currentTeam = "blue"
                          THEN [gs EXCEPT !.bluePicks = Append(@, championName)]
                          ELSE [gs EXCEPT !.redPicks = Append(@, championName)]
                     ELSE gs
             IN  [cl EXCEPT
                    !.gameState = pushed,
                    !.fearlessUsedChampions =
                        IF gs.currentAction = "pick" /\ cl.fearlessDraftEnabled
                        THEN @ \cup {championName} ELSE @,
                    !.advanceTimers = @ + 1]

\* the click reaches the solo code and is not turned away
SoloAccepts(cl, championName) ==
    /\ cl.gameState.phase = "drafting"
    /\ ~isUnavailable(cl.gameState, championName)
    /\ ~(cl.fearlessDraftEnabled /\ championName \in cl.fearlessUsedChampions)

\* the cards the user clicks: the first card that is still free and the card
\* clicked first
SoloCards ==
    LET free == { ch \in Champions : SoloAccepts(client, ch) }
    IN  { ch \in free : \A other \in free : ch <= other } \cup {1}

\* the user opens the solo draft screen
SoloInitializeDraft ==
    /\ client.ws = NoConn
    /\ client.soloDrafts < MaxSoloDrafts
    /\ client' = initializeDraft([client EXCEPT !.soloDrafts = @ + 1])
    /\ UNCHANGED serverVars

\* js/ui.js:856-858  the change event of the fearless checkbox, before the
\* first click of the draft
SoloTogglesFearless ==
    /\ client.ws = NoConn
    /\ TotalActions(client.gameState) = 0
    /\ client' = [client EXCEPT !.fearlessDraftEnabled = ~@]
    /\ UNCHANGED serverVars

\* js/ui.js:247  the click event of a champion card
SoloClicksChampion ==
    /\ client.ws = NoConn
    /\ \E championName \in SoloCards :
          /\ (SoloAccepts(client, championName) /\ client.advanceTimers > 0)
                 => client.earlyClicks < MaxEarlyClicks
          /\ client' =
               [handleChampionClick(client, championName) EXCEPT
                   !.earlyClicks = IF SoloAccepts(client, championName)
                                      /\ client.advanceTimers > 0
                                   THEN @ + 1 ELSE @]
    /\ UNCHANGED serverVars

\* js/ui.js:319-322  the callback of the oldest pending setTimeout
SoloAdvanceTimerFires ==
    /\ client.advanceTimers > 0
    /\ client' = [client EXCEPT !.gameState = advanceDraft(@),
                                !.advanceTimers = @ - 1]
    /\ UNCHANGED serverVars

NextSolo ==
    \/ SoloInitializeDraft
    \/ SoloTogglesFearless
    \/ SoloClicksChampion
    \/ SoloAdvanceTimerFires

SpecSolo == InitClient /\ [][NextSolo]_vars

\* C38: the page's solo draft order and the server's DRAFT_ORDER name the same
\* team and the same action at every turn index of 0..19 that the solo draft
\* has come to
C38_SameSequence ==
    /\ Len(draftOrder) = Len(DRAFT_ORDER)
    /\ \A i \in 0..19 :
          i <= TotalActions(client.gameState)
             => /\ draftOrder[i + 1].team = Step(i).team
                /\ draftOrder[i + 1].action = Step(i).action

\* C38, in a solo draft: whenever the draft waits for a click, the turn
\* belongs to the team and the action the server gives that turn index
C38_SoloTurnIsServerTurn ==
    LET gs == client.gameState
    IN  (gs.phase = "drafting" /\ client.advanceTimers = 0
           /\ TotalActions(gs) < Len(DRAFT_ORDER))
          => /\ gs.currentTeam = Step(TotalActions(gs)).team
             /\ gs.currentAction = Step(TotalActions(gs)).action

\* the list of a team and an action in the solo gameState
SoloList(gs, step) ==
    IF step.action = "ban"
    THEN IF step.team = "blue" THEN gs.blueBans ELSE gs.redBans
    ELSE IF step.team = "blue" THEN gs.bluePicks ELSE gs.redPicks

\* a click the solo code accepts
SoloAcceptedClick ==
    /\ SoloClicksChampion
    /\ TotalActions(client'.gameState) = TotalActions(client.gameState) + 1

\* C39: the k-th accepted click of a solo draft is recorded in the list of
\* the team and the action of draftOrder[k-1]
C39_ClickGoesToOrderedList ==
    [][SoloAcceptedClick =>
          LET k == TotalActions(client'.gameState)
          IN  /\ k <= Len(draftOrder)
              /\ Len(SoloList(client'.gameState, draftOrder[k]))
                     = Len(SoloList(client.gameState, draftOrder[k])) + 1]_vars

\* C39: no list of a solo draft holds more than 5 champions
C39_ListsHoldFive ==
    LET gs == client.gameState
    IN  /\ Len(gs.blueBans) <= 5 /\ Len(gs.redBans) <= 5
        /\ Len(gs.bluePicks) <= 5 /\ Len(gs.redPicks) <= 5

\* C39, without early clicks: the two statements for the clicks that arrive
\* after the delayed advanceDraft of the previous click has run
C39_OrderedWhenAdvanced ==
    [][(SoloAcceptedClick /\ client.earlyClicks = 0 /\ client.advanceTimers = 0) =>
          LET k == TotalActions(client'.gameState)
          IN  /\ k <= Len(draftOrder)
              /\ Len(SoloList(client'.gameState, draftOrder[k]))
                     = Len(SoloList(client.gameState, draftOrder[k])) + 1]_vars

\* the open connections a room holds as blue player, red player or spectator
OpenInRoom(room) ==
    { d \in Conns :
        /\ IsOpen(d)
        /\ \/ room.bluePlayer = d \/ room.redPlayer = d
           \/ \E i \in 1..Len(room.spectators) : room.spectators[i].ws = d }

\* the draft_update messages of an output that go to one connection
DraftUpdatesTo(out, d) ==
    { k \in 1..Len(out) : out[k].to = d /\ out[k].msg.type = "draft_update" }

\* C40, one each: an accepted draft_action sends exactly one draft_update to
\* every open connection of the room, the actor included
C40_OneUpdateEach ==
    \A c \in Conns : (variant = "fearless" /\ IsOpen(c) /\ InRoom(c)) =>
        \A champion \in ChampionInputs(c) :
            LET e == OnDraftAction(c, champion)
            IN  Accepted(e) =>
                    \A d \in OpenInRoom(RoomOf(c)) \cup {c} :
                        Cardinality(DraftUpdatesTo(e.out, d)) = 1

\* C40, state: every draft_update of an accepted draft_action carries the
\* DraftState the room has after the action, and the champion of the request
C40_CarriesPostState ==
    \A c \in Conns : (variant = "fearless" /\ IsOpen(c) /\ InRoom(c)) =>
        \A champion \in ChampionInputs(c) :
            LET e == OnDraftAction(c, champion)
            IN  Accepted(e) =>
                    /\ e.out # << >>
                    /\ \A k \in 1..Len(e.out) :
                          /\ e.out[k].msg.type = "draft_update"
                          /\ e.out[k].msg.draftState
                                 = e.rooms[conn[c].currentRoom].draftState
                          /\ e.out[k].msg.champion = champion
                          /\ e.out[k].msg.draftState.currentTurn
                                 = RoomOf(c).draftState.currentTurn + 1

\* C40, step: the team and action fields of the draft_update are the team and
\* the action of the step that was applied
C40_DescribesStep ==
    \A c \in Conns : (variant = "fearless" /\ IsOpen(c) /\ InRoom(c)) =>
        \A champion \in ChampionInputs(c) :
            LET e == OnDraftAction(c, champion)
                step == Step(RoomOf(c).draftState.currentTurn)
            IN  Accepted(e) =>
                    \A k \in 1..Len(e.out) :
                        /\ e.out[k].msg.team = step.team
                        /\ e.out[k].msg.action = step.action

\* C40: an accepted draft_action sends one draft_update to every open
\* connection of the room, carrying the post-action DraftState, with champion,
\* team and action fields that describe the step just applied
C40_DraftUpdateBroadcast ==
    /\ C40_OneUpdateEach
    /\ C40_CarriesPostState
    /\ C40_DescribesStep
====
